---- MODULE Spec2Model ----
(***************************************************************************)
(* The per-client WebRTC data-channel engine of naia-socket                *)
(* (webrtc_unreliable/client.rs): the DTLS phase machine, the minimal SCTP *)
(* association and the datagram shim between them.                         *)
(*                                                                         *)
(* The TLS library (openssl) and the SCTP codec are collaborators: the     *)
(* outcome of every library call is an input of the entry point that makes *)
(* it, and so is the number of datagrams the library writes in it.  A TSN is TsnBits wide here (32 in the code); every TSN operation   *)
(* is computed modulo TsnMod as the code computes it modulo 2^32.          *)
(***************************************************************************)
EXTENDS Integers, Sequences, FiniteSets, TLC

VARIABLES
    ssl_state,                      \* Client.ssl_state (the variant's tag)
    sctp_state,                     \* Client.sctp_state
    sctp_local_port,
    sctp_remote_port,
    sctp_local_verification_tag,
    sctp_remote_verification_tag,
    sctp_local_tsn,
    sctp_remote_tsn,
    last_activity,
    last_sent,
    received_messages,              \* Vec<(MessageType, PooledBuffer)>
    incoming_udp,                   \* ClientSslPackets.incoming_udp
    outgoing_udp,                   \* ClientSslPackets.outgoing_udp
    now,                            \* the clock read by Instant::now()
    written,                        \* history: every datagram the shim's write enqueued
                                    \* since the last take_outgoing_packets
    shut_in,                        \* history: the DTLS phase in which the owner last
                                    \* called start_shutdown ("never" before the first call)
    prev_send,                      \* history: the TSN of the DATA chunk of the latest
                                    \* successful send_message (-1 before the first)
    reinit,                         \* history: an INIT chunk was handled since that send
    between,                        \* history: DATA chunks the Client emitted since that
                                    \* send, counted up to TsnHalf
    out_at,                         \* history: the clock when the Client last wrote an
                                    \* SCTP packet (-1 before the first)
    max_tsn_call,                   \* a call of max_tsn by itself: its arguments and,
                                    \* once made, its result (-1 before; not made in
                                    \* the Client's specifications)
    shim_call,                      \* the latest read or write made on the shim by
                                    \* itself: the operation and what it returned
    drain,                          \* a receive_incoming_packet call run one loop
                                    \* iteration at a time: where it is and what the
                                    \* TLS library answers in it
    socket                          \* WebrtcServerSocket: its channels and the calls
                                    \* it made

cvars == <<ssl_state, sctp_state, sctp_local_port, sctp_remote_port,
           sctp_local_verification_tag, sctp_remote_verification_tag,
           sctp_local_tsn, sctp_remote_tsn, last_activity, last_sent,
           received_messages, incoming_udp, outgoing_udp>>

vars == <<ssl_state, sctp_state, sctp_local_port, sctp_remote_port,
          sctp_local_verification_tag, sctp_remote_verification_tag,
          sctp_local_tsn, sctp_remote_tsn, last_activity, last_sent,
          received_messages, incoming_udp, outgoing_udp, now, written, shut_in,
          prev_send, reinit, between, out_at, max_tsn_call, shim_call, drain, socket>>

sendhist == <<prev_send, reinit, between>>

apart == <<shim_call, drain, socket>>

aux == <<out_at, max_tsn_call, apart>>

----------------------------------------------------------------------------
(* Bounds of the model *)

TsnBits == 3
MaxOut == 2
MaxMsgs == 1
MaxTime == 4
MaxLen == 2
MaxFlight == 5
MaxSenders == 2
MaxIn == 1
MaxSends == 2

(* Program constants *)

HEARTBEAT_INTERVAL == 3
SCTP_BUFFER_SIZE == 262144
DATA_CHANNEL_PROTO_CONTROL == 50
DATA_CHANNEL_PROTO_STRING == 51
DATA_CHANNEL_PROTO_BINARY == 53
DATA_CHANNEL_MESSAGE_ACK == 2
DATA_CHANNEL_MESSAGE_OPEN == 3
MESSAGE_BUFFER_SIZE == 8
MAX_DTLS_MESSAGE_SIZE == 16384
MAX_SCTP_PACKET_SIZE == MAX_DTLS_MESSAGE_SIZE

SCTP_COOKIE == "WEBRTC-UNRELIABLE-COOKIE"
SCTP_HEARTBEAT == "WEBRTC-UNRELIABLE-HEARTBEAT"

TsnMod == 2 ^ TsnBits
TsnHalf == 2 ^ (TsnBits - 1)

----------------------------------------------------------------------------
(* The client as one value, so that a handler is a function of it.  ret is *)
(* the result the running call will return; wleft is how many more         *)
(* ssl_write calls the TLS library accepts in this call.                   *)

Self ==
    [ssl_state |-> ssl_state, sctp_state |-> sctp_state,
     sctp_local_port |-> sctp_local_port, sctp_remote_port |-> sctp_remote_port,
     sctp_local_verification_tag |-> sctp_local_verification_tag,
     sctp_remote_verification_tag |-> sctp_remote_verification_tag,
     sctp_local_tsn |-> sctp_local_tsn, sctp_remote_tsn |-> sctp_remote_tsn,
     last_activity |-> last_activity, last_sent |-> last_sent,
     received_messages |-> received_messages,
     incoming_udp |-> incoming_udp, outgoing_udp |-> outgoing_udp,
     written |-> written, ret |-> "Ok", wleft |-> 0]

Call(e) == [Self EXCEPT !.wleft = e.wok]

Install(c) ==
    /\ ssl_state' = c.ssl_state
    /\ sctp_state' = c.sctp_state
    /\ sctp_local_port' = c.sctp_local_port
    /\ sctp_remote_port' = c.sctp_remote_port
    /\ sctp_local_verification_tag' = c.sctp_local_verification_tag
    /\ sctp_remote_verification_tag' = c.sctp_remote_verification_tag
    /\ sctp_local_tsn' = c.sctp_local_tsn
    /\ sctp_remote_tsn' = c.sctp_remote_tsn
    /\ last_activity' = c.last_activity
    /\ last_sent' = c.last_sent
    /\ received_messages' = c.received_messages
    /\ incoming_udp' = c.incoming_udp
    /\ outgoing_udp' = c.outgoing_udp
    /\ written' = c.written

(* The history of written datagrams is kept short: MaxOut datagrams, or    *)
(* MaxFlight while it holds nothing but what handshake() wrote; the        *)
(* inbound queue a call leaves behind holds MaxIn datagrams at most.       *)
Fits(c) ==
    /\ Len(c.received_messages) <= MaxMsgs
    /\ Len(c.incoming_udp) <= MaxIn
    /\ \/ Len(c.written) <= MaxOut
       \/ /\ Len(c.written) <= MaxFlight
          /\ \A i \in 1..Len(c.written) : c.written[i].kind \in {"handshake", "alert"}

----------------------------------------------------------------------------
(* Introspection *)

is_established == ssl_state = "Established" /\ sctp_state = "Established"

is_shutdown == ssl_state = "Shutdown"

(* the larger of the two as plain integers *)
max_plain(a, b) == IF a > b THEN a ELSE b

Min(a, b) == IF a < b THEN a ELSE b

(* fn max_tsn(a: u32, b: u32) -> u32 *)
max_tsn(a, b) ==
    IF a > b
    THEN IF a - b < TsnHalf THEN a ELSE b
    ELSE IF b - a < TsnHalf THEN b ELSE a

(* u32::saturating_add in place of wrapping_add *)
saturating_add(x, y) == IF x + y >= TsnMod THEN TsnMod - 1 ELSE x + y

wrapping_add(x, y) == (x + y) % TsnMod

----------------------------------------------------------------------------
(* The datagram shim and the DTLS records over it *)

(* impl Write for ClientSslPackets: one datagram per write, at the tail *)
ShimWrite(c, dgram) ==
    [c EXCEPT !.outgoing_udp = Append(@, dgram), !.written = Append(@, dgram)]

(* The TLS session is moved out of the Client and dropped: its two queues  *)
(* go with it.                                                             *)
DropStream(c) ==
    [c EXCEPT !.ssl_state = "Shutdown", !.incoming_udp = <<>>, !.outgoing_udp = <<>>]

AppRecord(pkt) == [kind |-> "app", body |-> pkt]
HandshakeRecord == [kind |-> "handshake"]
AlertRecord == [kind |-> "alert"]
CloseNotifyRecord == [kind |-> "close_notify"]

(* the TLS library writes n records of one kind, a datagram each *)
RECURSIVE LibWrites(_, _, _)
LibWrites(c, rec, n) == IF n <= 0 THEN c ELSE LibWrites(ShimWrite(c, rec), rec, n - 1)

SctpPacket(c, chunk) ==
    [source_port |-> c.sctp_local_port, dest_port |-> c.sctp_remote_port,
     verification_tag |-> c.sctp_remote_verification_tag, chunks |-> <<chunk>>]

(* write_sctp_packet, of the SCTP codec: the bytes a packet takes are the   *)
(* common header and, for each chunk, its header and its value padded to 4 *)
(* bytes.  The packets the Client writes have one chunk; a DATA chunk      *)
(* carries user_data of any length, every other chunk has a fixed length   *)
(* or echoes bytes of a packet that was read into a buffer of              *)
(* MAX_SCTP_PACKET_SIZE bytes.                                             *)
SCTP_HEADER_LEN == 12
DATA_CHUNK_HEADER_LEN == 16

Pad4(n) == ((n + 3) \div 4) * 4

(* SctpWriteError::BufferSize: the packet is longer than the buffer *)
BufferSize(chunk) ==
    /\ chunk.type = "Data"
    /\ SCTP_HEADER_LEN + DATA_CHUNK_HEADER_LEN + Pad4(Len(chunk.user_data))
          > MAX_SCTP_PACKET_SIZE

(* fn send_sctp_packet: serialise, ssl_write, one record out *)
send_sctp_packet(c, chunk) ==
    IF BufferSize(chunk)
    THEN [c EXCEPT !.ret = "IncompletePacketWrite"]
    ELSE IF c.wleft = 0
    THEN [c EXCEPT !.ret = "TlsError"]
    ELSE ShimWrite([c EXCEPT !.wleft = @ - 1], AppRecord(SctpPacket(c, chunk)))

----------------------------------------------------------------------------
(* Variants of start_shutdown with one statement changed *)

(* ShutdownResult::Sent puts the stream back as Established *)
start_shutdown_stream_kept(c, sd) ==
    IF c.ssl_state # "Established"
    THEN c
    ELSE LET a == IF c.sctp_state # "Shutdown"
                  THEN send_sctp_packet(c, [type |-> "Abort"])
                  ELSE c
             b == IF c.sctp_state # "Shutdown"
                  THEN [a EXCEPT !.last_sent = now, !.sctp_state = "Shutdown"]
                  ELSE a
         IN  IF a.ret # "Ok" THEN DropStream(a)
             ELSE CASE sd = "Sent" -> ShimWrite(b, CloseNotifyRecord)
                    [] sd = "Received" -> DropStream(ShimWrite(b, CloseNotifyRecord))
                    [] OTHER -> DropStream([b EXCEPT !.ret = "TlsError"])

(* the ShuttingDown phase handled like Established *)
start_shutdown_again(c, sd) ==
    IF c.ssl_state \notin {"Established", "ShuttingDown"}
    THEN c
    ELSE LET a == IF c.sctp_state # "Shutdown"
                  THEN send_sctp_packet(c, [type |-> "Abort"])
                  ELSE c
             b == IF c.sctp_state # "Shutdown"
                  THEN [a EXCEPT !.last_sent = now, !.sctp_state = "Shutdown"]
                  ELSE a
         IN  IF a.ret # "Ok" THEN DropStream(a)
             ELSE CASE sd = "Sent" ->
                         [ShimWrite(b, CloseNotifyRecord) EXCEPT !.ssl_state = "ShuttingDown"]
                    [] sd = "Received" -> DropStream(ShimWrite(b, CloseNotifyRecord))
                    [] OTHER -> DropStream([b EXCEPT !.ret = "TlsError"])

(* the ABORT carries the local verification tag *)
start_shutdown_local_tag(c, sd) ==
    IF c.ssl_state # "Established"
    THEN c
    ELSE LET a == IF c.sctp_state # "Shutdown"
                  THEN send_sctp_packet(
                          [c EXCEPT !.sctp_remote_verification_tag = c.sctp_local_verification_tag],
                          [type |-> "Abort"])
                  ELSE c
             b == IF c.sctp_state # "Shutdown"
                  THEN [a EXCEPT !.last_sent = now, !.sctp_state = "Shutdown",
                                 !.sctp_remote_verification_tag = c.sctp_remote_verification_tag]
                  ELSE a
         IN  IF a.ret # "Ok" THEN DropStream(a)
             ELSE CASE sd = "Sent" ->
                         [ShimWrite(b, CloseNotifyRecord) EXCEPT !.ssl_state = "ShuttingDown"]
                    [] sd = "Received" -> DropStream(ShimWrite(b, CloseNotifyRecord))
                    [] OTHER -> DropStream([b EXCEPT !.ret = "TlsError"])

----------------------------------------------------------------------------
(* Client::start_shutdown; sd is what ssl_stream.shutdown() reports *)

start_shutdown(c, sd) ==
    IF c.ssl_state # "Established"
    THEN c
    ELSE LET a == IF c.sctp_state # "Shutdown"
                  THEN send_sctp_packet(c, [type |-> "Abort"])
                  ELSE c
             b == IF c.sctp_state # "Shutdown"
                  THEN [a EXCEPT !.last_sent = now, !.sctp_state = "Shutdown"]
                  ELSE a
         IN  IF a.ret # "Ok" THEN DropStream(a)
             ELSE CASE sd = "Sent" ->
                         [ShimWrite(b, CloseNotifyRecord) EXCEPT !.ssl_state = "ShuttingDown"]
                    [] sd = "Received" ->
                         DropStream(ShimWrite(b, CloseNotifyRecord))
                    [] OTHER ->
                         DropStream([b EXCEPT !.ret = "TlsError"])

----------------------------------------------------------------------------
(* Client::receive_sctp_packet, one match arm per chunk type.  e.rng_tag   *)
(* and e.rng_tsn are the two values thread_rng() yields for an INIT.       *)

(* the INIT-ACK echoes the stream counts crosswise *)
OnInit_crossed(c, pkt, chunk, e) ==
    LET a == [c EXCEPT !.sctp_local_port = pkt.dest_port,
                       !.sctp_remote_port = pkt.source_port,
                       !.sctp_local_verification_tag = e.rng_tag,
                       !.sctp_remote_verification_tag = chunk.initiate_tag,
                       !.sctp_local_tsn = e.rng_tsn,
                       !.sctp_remote_tsn = chunk.initial_tsn]
        b == send_sctp_packet(a,
                [type |-> "InitAck",
                 initiate_tag |-> a.sctp_local_verification_tag,
                 window_credit |-> SCTP_BUFFER_SIZE,
                 num_outbound_streams |-> chunk.num_inbound_streams,
                 num_inbound_streams |-> chunk.num_outbound_streams,
                 initial_tsn |-> a.sctp_local_tsn,
                 state_cookie |-> SCTP_COOKIE])
    IN  IF b.ret # "Ok" THEN b
        ELSE [b EXCEPT !.sctp_state = "InitAck", !.last_activity = now, !.last_sent = now]

OnInit(c, pkt, chunk, e) ==
    LET a == [c EXCEPT !.sctp_local_port = pkt.dest_port,
                       !.sctp_remote_port = pkt.source_port,
                       !.sctp_local_verification_tag = e.rng_tag,
                       !.sctp_remote_verification_tag = chunk.initiate_tag,
                       !.sctp_local_tsn = e.rng_tsn,
                       !.sctp_remote_tsn = chunk.initial_tsn]
        b == send_sctp_packet(a,
                [type |-> "InitAck",
                 initiate_tag |-> a.sctp_local_verification_tag,
                 window_credit |-> SCTP_BUFFER_SIZE,
                 num_outbound_streams |-> chunk.num_outbound_streams,
                 num_inbound_streams |-> chunk.num_inbound_streams,
                 initial_tsn |-> a.sctp_local_tsn,
                 state_cookie |-> SCTP_COOKIE])
    IN  IF b.ret # "Ok" THEN b
        ELSE [b EXCEPT !.sctp_state = "InitAck", !.last_activity = now, !.last_sent = now]

(* the cookie is not compared *)
OnCookieEcho_any_cookie(c, chunk) ==
    IF c.sctp_state # "Shutdown"
    THEN LET a == send_sctp_packet(c, [type |-> "CookieAck"])
         IN  IF a.ret # "Ok" THEN a
             ELSE IF a.sctp_state = "InitAck"
                  THEN [a EXCEPT !.last_sent = now, !.sctp_state = "Established",
                                 !.last_activity = now]
                  ELSE [a EXCEPT !.last_sent = now]
    ELSE c

OnCookieEcho(c, chunk) ==
    IF chunk.state_cookie = SCTP_COOKIE /\ c.sctp_state # "Shutdown"
    THEN LET a == send_sctp_packet(c, [type |-> "CookieAck"])
         IN  IF a.ret # "Ok" THEN a
             ELSE IF a.sctp_state = "InitAck"
                  THEN [a EXCEPT !.last_sent = now, !.sctp_state = "Established",
                                 !.last_activity = now]
                  ELSE [a EXCEPT !.last_sent = now]
    ELSE c

DataChannelAck(c, stream_id) ==
    [type |-> "Data", tsn |-> c.sctp_local_tsn, stream_id |-> stream_id,
     stream_seq |-> 0, proto_id |-> DATA_CHANNEL_PROTO_CONTROL,
     user_data |-> <<DATA_CHANNEL_MESSAGE_ACK>>]

SAck(c) ==
    [type |-> "SAck", cumulative_tsn_ack |-> c.sctp_remote_tsn,
     adv_recv_window |-> SCTP_BUFFER_SIZE, num_gap_ack_blocks |-> 0, num_dup_tsn |-> 0]

(* remote_tsn taken from the chunk without max_tsn *)
OnData_last_tsn(c, chunk) ==
    LET a == [c EXCEPT !.sctp_remote_tsn = chunk.tsn]
        b == IF chunk.proto_id = DATA_CHANNEL_PROTO_CONTROL
             THEN IF chunk.user_data # <<>> /\ chunk.user_data[1] = DATA_CHANNEL_MESSAGE_OPEN
                  THEN LET w == send_sctp_packet(a, DataChannelAck(a, chunk.stream_id))
                       IN  IF w.ret # "Ok" THEN w
                           ELSE [w EXCEPT !.sctp_local_tsn = wrapping_add(@, 1)]
                  ELSE a
             ELSE IF chunk.proto_id = DATA_CHANNEL_PROTO_STRING
             THEN [a EXCEPT !.received_messages = Append(@, <<"Text", chunk.user_data>>)]
             ELSE IF chunk.proto_id = DATA_CHANNEL_PROTO_BINARY
             THEN [a EXCEPT !.received_messages = Append(@, <<"Binary", chunk.user_data>>)]
             ELSE a
        s == send_sctp_packet(b, SAck(b))
    IN  IF b.ret # "Ok" THEN b
        ELSE IF s.ret # "Ok" THEN s
        ELSE [s EXCEPT !.last_activity = now, !.last_sent = now]

(* the DATA_CHANNEL_ACK goes out on stream 0 *)
OnData_stream0(c, chunk) ==
    LET a == [c EXCEPT !.sctp_remote_tsn = max_tsn(c.sctp_remote_tsn, chunk.tsn)]
        b == IF chunk.proto_id = DATA_CHANNEL_PROTO_CONTROL
             THEN IF chunk.user_data # <<>> /\ chunk.user_data[1] = DATA_CHANNEL_MESSAGE_OPEN
                  THEN LET w == send_sctp_packet(a, DataChannelAck(a, 0))
                       IN  IF w.ret # "Ok" THEN w
                           ELSE [w EXCEPT !.sctp_local_tsn = wrapping_add(@, 1)]
                  ELSE a
             ELSE IF chunk.proto_id = DATA_CHANNEL_PROTO_STRING
             THEN [a EXCEPT !.received_messages = Append(@, <<"Text", chunk.user_data>>)]
             ELSE IF chunk.proto_id = DATA_CHANNEL_PROTO_BINARY
             THEN [a EXCEPT !.received_messages = Append(@, <<"Binary", chunk.user_data>>)]
             ELSE a
        s == send_sctp_packet(b, SAck(b))
    IN  IF b.ret # "Ok" THEN b
        ELSE IF s.ret # "Ok" THEN s
        ELSE [s EXCEPT !.last_activity = now, !.last_sent = now]

(* a DATA chunk whose TSN is not after remote_tsn is taken for a duplicate  *)
(* and not delivered                                                       *)
OnData_dedup(c, chunk) ==
    LET a == [c EXCEPT !.sctp_remote_tsn = max_tsn(c.sctp_remote_tsn, chunk.tsn)]
        fresh == a.sctp_remote_tsn # c.sctp_remote_tsn
        b == IF chunk.proto_id = DATA_CHANNEL_PROTO_CONTROL
             THEN IF chunk.user_data # <<>> /\ chunk.user_data[1] = DATA_CHANNEL_MESSAGE_OPEN
                  THEN LET w == send_sctp_packet(a, DataChannelAck(a, chunk.stream_id))
                       IN  IF w.ret # "Ok" THEN w
                           ELSE [w EXCEPT !.sctp_local_tsn = wrapping_add(@, 1)]
                  ELSE a
             ELSE IF chunk.proto_id = DATA_CHANNEL_PROTO_STRING /\ fresh
             THEN [a EXCEPT !.received_messages = Append(@, <<"Text", chunk.user_data>>)]
             ELSE IF chunk.proto_id = DATA_CHANNEL_PROTO_BINARY /\ fresh
             THEN [a EXCEPT !.received_messages = Append(@, <<"Binary", chunk.user_data>>)]
             ELSE a
        s == send_sctp_packet(b, SAck(b))
    IN  IF b.ret # "Ok" THEN b
        ELSE IF s.ret # "Ok" THEN s
        ELSE [s EXCEPT !.last_activity = now, !.last_sent = now]

OnData(c, chunk) ==
    LET a == [c EXCEPT !.sctp_remote_tsn = max_tsn(c.sctp_remote_tsn, chunk.tsn)]
        b == IF chunk.proto_id = DATA_CHANNEL_PROTO_CONTROL
             THEN IF chunk.user_data # <<>> /\ chunk.user_data[1] = DATA_CHANNEL_MESSAGE_OPEN
                  THEN LET w == send_sctp_packet(a, DataChannelAck(a, chunk.stream_id))
                       IN  IF w.ret # "Ok" THEN w
                           ELSE [w EXCEPT !.sctp_local_tsn = wrapping_add(@, 1)]
                  ELSE a
             ELSE IF chunk.proto_id = DATA_CHANNEL_PROTO_STRING
             THEN [a EXCEPT !.received_messages = Append(@, <<"Text", chunk.user_data>>)]
             ELSE IF chunk.proto_id = DATA_CHANNEL_PROTO_BINARY
             THEN [a EXCEPT !.received_messages = Append(@, <<"Binary", chunk.user_data>>)]
             ELSE a
        s == send_sctp_packet(b, SAck(b))
    IN  IF b.ret # "Ok" THEN b
        ELSE IF s.ret # "Ok" THEN s
        ELSE [s EXCEPT !.last_activity = now, !.last_sent = now]

OnHeartbeat(c, chunk) ==
    LET a == send_sctp_packet(c, [type |-> "HeartbeatAck",
                                  heartbeat_info |-> chunk.heartbeat_info])
    IN  IF a.ret # "Ok" THEN a
        ELSE [a EXCEPT !.last_activity = now, !.last_sent = now]

(* HEARTBEAT-ACK stamps last_sent as the other arms do *)
OnHeartbeatAck_sent(c) == [c EXCEPT !.last_activity = now, !.last_sent = now]

OnHeartbeatAck(c) == [c EXCEPT !.last_activity = now]

OnSAck(c, chunk) ==
    IF chunk.num_gap_ack_blocks > 0
    THEN LET a == send_sctp_packet(c, [type |-> "ForwardTsn",
                                       new_cumulative_tsn |-> c.sctp_local_tsn])
         IN  IF a.ret # "Ok" THEN a
             ELSE [a EXCEPT !.last_sent = now, !.last_activity = now]
    ELSE [c EXCEPT !.last_activity = now]

OnShutdown(c) == send_sctp_packet(c, [type |-> "ShutdownAck"])

(* start_shutdown runs before the SCTP phase is set *)
OnShutdownAckOrAbort_late(c, e) ==
    [start_shutdown(c, e.tls) EXCEPT !.sctp_state = "Shutdown"]

OnShutdownAckOrAbort(c, e) ==
    start_shutdown([c EXCEPT !.sctp_state = "Shutdown"], e.tls)

(* FORWARD-TSN clamped by max_tsn *)
OnForwardTsn_clamped(c, chunk) ==
    [c EXCEPT !.sctp_remote_tsn = max_tsn(@, chunk.new_cumulative_tsn)]

OnForwardTsn(c, chunk) == [c EXCEPT !.sctp_remote_tsn = chunk.new_cumulative_tsn]

ReceiveChunk(c, pkt, chunk, e) ==
    CASE chunk.type = "Init" -> OnInit(c, pkt, chunk, e)
      [] chunk.type = "CookieEcho" -> OnCookieEcho(c, chunk)
      [] chunk.type = "Data" -> OnData(c, chunk)
      [] chunk.type = "Heartbeat" -> OnHeartbeat(c, chunk)
      [] chunk.type = "HeartbeatAck" -> OnHeartbeatAck(c)
      [] chunk.type = "SAck" -> OnSAck(c, chunk)
      [] chunk.type = "Shutdown" -> OnShutdown(c)
      [] chunk.type \in {"ShutdownAck", "Abort"} -> OnShutdownAckOrAbort(c, e)
      [] chunk.type = "ForwardTsn" -> OnForwardTsn(c, chunk)
      [] OTHER -> c

(* the ShutdownAck | Abort arm does not return: the chunks after it are    *)
(* dispatched as well, with the session no longer there                    *)
RECURSIVE ReceiveChunks_on(_, _, _, _)
ReceiveChunks_on(c, pkt, i, e) ==
    IF i > Len(pkt.chunks) THEN c
    ELSE IF c.ssl_state # "Established" THEN [c EXCEPT !.ret = "Panic"]
    ELSE LET r == ReceiveChunk(c, pkt, pkt.chunks[i], e)
         IN  IF r.ret # "Ok" THEN r ELSE ReceiveChunks_on(r, pkt, i + 1, e)

RECURSIVE ReceiveChunks(_, _, _, _)
ReceiveChunks(c, pkt, i, e) ==
    IF i > Len(pkt.chunks) THEN c
    ELSE LET r == ReceiveChunk(c, pkt, pkt.chunks[i], e)
         IN  IF r.ret # "Ok" \/ pkt.chunks[i].type \in {"ShutdownAck", "Abort"}
             THEN r
             ELSE ReceiveChunks(r, pkt, i + 1, e)

receive_sctp_packet(c, pkt, e) ==
    IF c.ssl_state # "Established"
    THEN [c EXCEPT !.ret = "Panic"]
    ELSE ReceiveChunks(c, pkt, 1, e)

----------------------------------------------------------------------------
(* Client::receive_incoming_packet.  e.tls is what the one handshake() or  *)
(* shutdown() call of this entry-point call reports.  What ssl_read        *)
(* reports follows from the datagram at the head of the inbound queue.     *)

(* impl Read for ClientSslPackets: the head datagram is popped *)
ShimPop(c) == [c EXCEPT !.incoming_udp = Tail(@)]

(* the TLS library reads n datagrams off the inbound queue, or all there   *)
(* are                                                                     *)
LibReads(c, n) ==
    [c EXCEPT !.incoming_udp = SubSeq(@, Min(n, Len(@)) + 1, Len(@))]

(* ClientSslState::Handshake arm.  handshake() reads e.reads datagrams of   *)
(* the queue and writes e.flight datagrams: messages of its flight, or     *)
(* alerts when it fails.  The datagrams it does not read stay queued.      *)
RecvHandshake(c, d, e) ==
    LET a == LibReads(c, e.reads)
    IN  CASE e.tls = "Finished" ->
               [LibWrites(a, HandshakeRecord, e.flight) EXCEPT !.ssl_state = "Established"]
          [] e.tls = "WouldBlock" -> LibWrites(a, HandshakeRecord, e.flight)
          [] e.tls = "Failure" -> LibWrites(a, AlertRecord, e.flight)
          [] OTHER -> DropStream([a EXCEPT !.ret = "OpenSslError"])

(* the junk the TLS library reads and drops *)
IsJunk(d) == d.kind = "noise"

(* shutdown() reads a datagram longer than the library's buffer: the head  *)
(* of the queue once the junk before it is dropped                         *)
RECURSIVE ReadsOversize(_)
ReadsOversize(q) ==
    IF q = <<>> THEN FALSE
    ELSE IF Head(q).kind = "oversize" THEN TRUE
    ELSE IF IsJunk(Head(q)) THEN ReadsOversize(Tail(q))
    ELSE FALSE

(* fn ssl_err_to_client_err: the shim's own error comes back as it is *)
ssl_err_to_client_err(q) ==
    IF ReadsOversize(q) THEN "IncompletePacketRead" ELSE "TlsError"

(* the ShuttingDown arm puts the stream back as Established on WANT_READ *)
RecvShuttingDown_reopened(c, d, e) ==
    LET a == LibReads(c, e.reads)
    IN  CASE e.tls = "WantRead" -> [a EXCEPT !.ssl_state = "Established"]
          [] e.tls = "Sent" -> a
          [] e.tls = "Received" -> DropStream(a)
          [] OTHER -> DropStream([a EXCEPT !.ret = ssl_err_to_client_err(c.incoming_udp)])

(* ClientSslState::ShuttingDown arm; shutdown() reads e.reads datagrams *)
RecvShuttingDown(c, d, e) ==
    LET a == LibReads(c, e.reads)
    IN  CASE e.tls \in {"WantRead", "Sent"} -> a
          [] e.tls = "Received" -> DropStream(a)
          [] OTHER -> DropStream([a EXCEPT !.ret = ssl_err_to_client_err(c.incoming_udp)])

(* the while-let loop over ssl_read *)
RECURSIVE Drain(_, _)
Drain(c, e) ==
    IF c.ssl_state # "Established" \/ c.incoming_udp = <<>>
    THEN c
    ELSE LET d == Head(c.incoming_udp)
             a == ShimPop(c)
         IN  CASE d.kind = "app" ->
                    LET r == receive_sctp_packet(a, d.body, e)
                    IN  IF r.ret # "Ok" THEN r ELSE Drain(r, e)
               [] d.kind \in {"garbled", "noise"} -> Drain(a, e)
               [] d.kind = "close_notify" ->
                    LET r == start_shutdown(a, e.tls)
                    IN  IF r.ret # "Ok" THEN r ELSE Drain(r, e)
               [] d.kind = "oversize" -> [a EXCEPT !.ret = "IncompletePacketRead"]
               [] OTHER -> [a EXCEPT !.ret = "TlsError"]

(* the loop goes round again when ssl_read reports WANT_READ *)
DrainStep_spin(c, e) ==
    IF c.ssl_state # "Established"
    THEN [client |-> c, again |-> FALSE]
    ELSE IF c.incoming_udp = <<>>
    THEN [client |-> c, again |-> TRUE]
    ELSE LET d == Head(c.incoming_udp)
             a == ShimPop(c)
         IN  CASE d.kind = "app" ->
                    LET r == receive_sctp_packet(a, d.body, e)
                    IN  [client |-> r, again |-> r.ret = "Ok"]
               [] d.kind \in {"garbled", "noise"} -> [client |-> a, again |-> TRUE]
               [] d.kind = "close_notify" ->
                    LET r == start_shutdown(a, e.tls)
                    IN  [client |-> r, again |-> r.ret = "Ok"]
               [] d.kind = "oversize" ->
                    [client |-> [a EXCEPT !.ret = "IncompletePacketRead"], again |-> FALSE]
               [] OTHER -> [client |-> [a EXCEPT !.ret = "TlsError"], again |-> FALSE]

(* one iteration of the while-let loop: the client after it, and whether   *)
(* the loop goes round again                                               *)
DrainStep(c, e) ==
    IF c.ssl_state # "Established"
    THEN [client |-> c, again |-> FALSE]
    ELSE IF c.incoming_udp = <<>>
    THEN [client |-> c, again |-> FALSE]
    ELSE LET d == Head(c.incoming_udp)
             a == ShimPop(c)
         IN  CASE d.kind = "app" ->
                    LET r == receive_sctp_packet(a, d.body, e)
                    IN  [client |-> r, again |-> r.ret = "Ok"]
               [] d.kind \in {"garbled", "noise"} -> [client |-> a, again |-> TRUE]
               [] d.kind = "close_notify" ->
                    LET r == start_shutdown(a, e.tls)
                    IN  [client |-> r, again |-> r.ret = "Ok"]
               [] d.kind = "oversize" ->
                    [client |-> [a EXCEPT !.ret = "IncompletePacketRead"], again |-> FALSE]
               [] OTHER -> [client |-> [a EXCEPT !.ret = "TlsError"], again |-> FALSE]

(* receive_incoming_packet up to its loop: the datagram queued and the     *)
(* DTLS phase advanced                                                     *)
Feed(c, d, e) ==
    IF c.ssl_state = "Shutdown"
    THEN [c EXCEPT !.ret = "NotConnected"]
    ELSE LET p == [c EXCEPT !.incoming_udp = Append(@, d)]
         IN  CASE c.ssl_state = "Handshake" -> RecvHandshake(p, d, e)
               [] c.ssl_state = "ShuttingDown" -> RecvShuttingDown(p, d, e)
               [] OTHER -> p

receive_incoming_packet(c, d, e) ==
    IF c.ssl_state = "Shutdown"
    THEN [c EXCEPT !.ret = "NotConnected"]
    ELSE LET p == [c EXCEPT !.incoming_udp = Append(@, d)]
             a == CASE c.ssl_state = "Handshake" -> RecvHandshake(p, d, e)
                    [] c.ssl_state = "ShuttingDown" -> RecvShuttingDown(p, d, e)
                    [] OTHER -> p
         IN  IF a.ret # "Ok" THEN a ELSE Drain(a, e)

(* Client::take_outgoing_packets: what it yields, and the client after *)
take_outgoing_packets(c) ==
    IF c.ssl_state = "Shutdown" THEN <<>> ELSE c.outgoing_udp

(* the queue is read but not drained *)
AfterTake_kept(c) == c

AfterTake(c) ==
    IF c.ssl_state = "Shutdown" THEN c ELSE [c EXCEPT !.outgoing_udp = <<>>]

(* Client::receive_messages: what it yields, and the client after *)
receive_messages(c) == c.received_messages

AfterReceive(c) == [c EXCEPT !.received_messages = <<>>]

(* send_message without the SCTP phase check *)
send_message_unchecked(c, message_type, message) ==
    IF c.ssl_state # "Established" THEN [c EXCEPT !.ret = "NotConnected"]
    ELSE LET proto_id == IF message_type = "Text"
                         THEN DATA_CHANNEL_PROTO_STRING
                         ELSE DATA_CHANNEL_PROTO_BINARY
             a == send_sctp_packet(c,
                    [type |-> "Data", tsn |-> c.sctp_local_tsn, stream_id |-> 0,
                     stream_seq |-> 0, proto_id |-> proto_id, user_data |-> message])
         IN  IF a.ret # "Ok" THEN a
             ELSE [a EXCEPT !.sctp_local_tsn = wrapping_add(@, 1)]

(* send_message without the increment of sctp_local_tsn *)
send_message_no_increment(c, message_type, message) ==
    IF c.ssl_state # "Established" THEN [c EXCEPT !.ret = "NotConnected"]
    ELSE IF c.sctp_state # "Established" THEN [c EXCEPT !.ret = "NotEstablished"]
    ELSE LET proto_id == IF message_type = "Text"
                         THEN DATA_CHANNEL_PROTO_STRING
                         ELSE DATA_CHANNEL_PROTO_BINARY
         IN  send_sctp_packet(c,
                    [type |-> "Data", tsn |-> c.sctp_local_tsn, stream_id |-> 0,
                     stream_seq |-> 0, proto_id |-> proto_id, user_data |-> message])

(* Client::send_message *)
send_message(c, message_type, message) ==
    IF c.ssl_state # "Established" THEN [c EXCEPT !.ret = "NotConnected"]
    ELSE IF c.sctp_state # "Established" THEN [c EXCEPT !.ret = "NotEstablished"]
    ELSE LET proto_id == IF message_type = "Text"
                         THEN DATA_CHANNEL_PROTO_STRING
                         ELSE DATA_CHANNEL_PROTO_BINARY
             a == send_sctp_packet(c,
                    [type |-> "Data", tsn |-> c.sctp_local_tsn, stream_id |-> 0,
                     stream_seq |-> 0, proto_id |-> proto_id, user_data |-> message])
         IN  IF a.ret # "Ok" THEN a
             ELSE [a EXCEPT !.sctp_local_tsn = wrapping_add(@, 1)]

(* Client::generate_periodic *)
generate_periodic(c) ==
    IF now - c.last_sent > HEARTBEAT_INTERVAL
       /\ c.ssl_state = "Established" /\ c.sctp_state = "Established"
    THEN LET a == send_sctp_packet(c, [type |-> "Heartbeat",
                                       heartbeat_info |-> SCTP_HEARTBEAT])
         IN  IF a.ret # "Ok" THEN a ELSE [a EXCEPT !.last_sent = now]
    ELSE c

----------------------------------------------------------------------------
(* What the environment can present: datagrams from the peer, the results  *)
(* of the TLS library's calls, the values of the random generator.         *)

NoWriteFails == MaxOut + 1

InPacket(chunks) ==
    [source_port |-> 5000, dest_port |-> 5001, verification_tag |-> 0, chunks |-> chunks]

InitChunk(tag, tsn) ==
    [type |-> "Init", initiate_tag |-> tag, window_credit |-> 1024,
     num_outbound_streams |-> 1, num_inbound_streams |-> 2, initial_tsn |-> tsn]
CookieEchoChunk(cookie) == [type |-> "CookieEcho", state_cookie |-> cookie]
DataChunk(tsn, stream_id, proto_id, user_data) ==
    [type |-> "Data", tsn |-> tsn, stream_id |-> stream_id, stream_seq |-> 0,
     proto_id |-> proto_id, user_data |-> user_data]
AbortChunk == [type |-> "Abort"]

OpenBody == <<DATA_CHANNEL_MESSAGE_OPEN>>
TextBody == <<104>>

PeerTsns == 0..(TsnMod - 1)
RngTsns == {0, TsnMod - 1}
RngTags == {7}

TlsDatagrams == {[kind |-> "close_notify"], [kind |-> "noise"], [kind |-> "bad"]}

(* The peer's datagrams of Spec: the association's life and death *)
Datagrams ==
    {AppRecord(InPacket(<<c>>)) :
        c \in {InitChunk(9, 0), CookieEchoChunk(SCTP_COOKIE), CookieEchoChunk("STALE"),
               AbortChunk,
               DataChunk(1, 1, DATA_CHANNEL_PROTO_CONTROL, OpenBody),
               DataChunk(1, 0, DATA_CHANNEL_PROTO_STRING, TextBody)}}
    \cup TlsDatagrams

(* DATA chunks of every kind: PPID and body *)
DataBodies ==
    {<<DATA_CHANNEL_PROTO_CONTROL, OpenBody>>, <<DATA_CHANNEL_PROTO_CONTROL, <<7>> >>,
     <<DATA_CHANNEL_PROTO_CONTROL, <<>> >>, <<DATA_CHANNEL_PROTO_STRING, TextBody>>,
     <<DATA_CHANNEL_PROTO_BINARY, <<>> >>, <<99, OpenBody>>}

Messages == {<<"Text", TextBody>>, <<"Binary", <<>> >>}

(* the longest payload whose packet fits the buffer, and one byte more *)
LongestBody ==
    [i \in 1..(MAX_SCTP_PACKET_SIZE - SCTP_HEADER_LEN - DATA_CHUNK_HEADER_LEN) |-> 0]
BigBody == Append(LongestBody, 0)
BigMessages == {<<"Text", BigBody>>, <<"Binary", BigBody>>}
LifeMessages == {<<"Text", TextBody>>}

(* A call in which the TLS library fails no write *)
QuietEnv ==
    [tls |-> "None", wok |-> NoWriteFails, rng_tag |-> 7, rng_tsn |-> 0, flight |-> 0,
     reads |-> 0]

(* The inputs of a call besides its argument: what the one handshake() or  *)
(* shutdown() call reports (tls), how many ssl_write calls succeed before   *)
(* the library fails one (wok), the random generator's two values, and how  *)
(* many datagrams handshake() writes (flight) and how many datagrams of    *)
(* the inbound queue handshake() or shutdown() reads (reads).  An input    *)
(* the call cannot read is held at one value.                              *)
TlsResults ==
    CASE ssl_state = "Handshake" -> {"Finished", "WouldBlock", "Failure", "SetupFailure"}
      [] ssl_state = "Established" -> {"Sent", "Received", "Error"}
      [] ssl_state = "ShuttingDown" -> {"WantRead", "Sent", "Received", "Error"}
      [] OTHER -> {"None"}

WriteResults == {0, 1, NoWriteFails}

(* the write results that differ in a call making n ssl_write calls at     *)
(* most: the library fails the first, the second, ..., or none             *)
WriteResultsOf(n) == {w \in WriteResults : w < n} \cup {NoWriteFails}

(* the ssl_write calls the handling of a datagram makes at most: one for   *)
(* each chunk answered with a packet or for the ABORT of a shutdown, two   *)
(* for a DATA_CHANNEL_OPEN                                                 *)
WritesOf(d) ==
    CASE d.kind = "close_notify" -> 1
      [] d.kind = "app" ->
           IF \E i \in 1..Len(d.body.chunks) :
                 /\ d.body.chunks[i].type = "Data"
                 /\ d.body.chunks[i].proto_id = DATA_CHANNEL_PROTO_CONTROL
           THEN 2 ELSE Len(d.body.chunks)
      [] OTHER -> 0

HasChunk(d, types) ==
    d.kind = "app" /\ \E i \in 1..Len(d.body.chunks) : d.body.chunks[i].type \in types

(* the datagrams one handshake() call writes: none, one, or a flight of    *)
(* several                                                                 *)
Flights == {0, 1, MaxFlight}

EnvSet(tls, writes, rng) ==
    [tls : IF tls THEN TlsResults ELSE {"None"},
     wok : WriteResultsOf(writes),
     rng_tag : RngTags,
     rng_tsn : IF rng THEN RngTsns ELSE {0},
     flight : IF tls /\ ssl_state = "Handshake" THEN Flights ELSE {0},
     reads : IF tls /\ ssl_state \in {"Handshake", "ShuttingDown"}
             THEN 0..(Len(incoming_udp) + 1) ELSE {0}]

(* what handshake() or shutdown() can read of the queue once the call has  *)
(* pushed its datagram: a call that finishes the handshake or reports that *)
(* it wants more has read all there is, a handshake that fails has read    *)
(* any number, none included                                               *)
Reads(tls) ==
    LET n == Len(incoming_udp) + 1
    IN  CASE tls \in {"Finished", "WouldBlock", "WantRead", "Sent"} -> {n}
          [] tls = "Failure" -> 0..n
          [] OTHER -> {0}

(* handshake() writes one alert at most when it fails and nothing when the *)
(* setup fails; shutdown() fails when it reads an oversize datagram        *)
RecvEnvs(d) ==
    IF ssl_state = "Established"
    THEN EnvSet(d.kind = "close_notify" \/ HasChunk(d, {"Abort", "ShutdownAck"}),
                WritesOf(d),
                HasChunk(d, {"Init"}))
    ELSE {e \in EnvSet(TRUE, 0, FALSE) :
            /\ e.reads \in Reads(e.tls)
            /\ e.tls = "Failure" => e.flight <= 1
            /\ e.tls = "SetupFailure" => e.flight = 0
            /\ ssl_state = "ShuttingDown" /\ ReadsOversize(Append(incoming_udp, d))
                  => e.tls = "Error"}

SendEnvs == EnvSet(FALSE, IF is_established THEN 1 ELSE 0, FALSE)

PeriodicEnvs == EnvSet(FALSE, IF is_established THEN 1 ELSE 0, FALSE)

(* start_shutdown calls the library in the Established phase only *)
ShutdownEnvs ==
    IF ssl_state = "Established"
    THEN EnvSet(TRUE, IF sctp_state # "Shutdown" THEN 1 ELSE 0, FALSE)
    ELSE {QuietEnv}

(* no read or write made on the shim by itself *)
ShimIdle == [op |-> "none", ret |-> "Ok", n |-> 0, buf |-> <<>>]

(* no receive_incoming_packet call under way *)
DrainIdle ==
    [pc |-> "idle", d |-> [kind |-> "none"], env |-> QuietEnv, wleft |-> 0, ret |-> "Ok"]

(* WebrtcServerSocket as bind() returns it *)
SocketBound ==
    [to_server |-> <<>>, to_client |-> <<>>, rtc_sent |-> <<>>, returned |-> "None",
     senders |-> 0, parked |-> {}, pc |-> "select", out |-> [type |-> "None"]]

----------------------------------------------------------------------------
(* The entry points as actions *)

Init ==
    /\ ssl_state = "Handshake"
    /\ sctp_state = "Shutdown"
    /\ sctp_local_port = 0
    /\ sctp_remote_port = 0
    /\ sctp_local_verification_tag = 0
    /\ sctp_remote_verification_tag = 0
    /\ sctp_local_tsn = 0
    /\ sctp_remote_tsn = 0
    /\ last_activity = 0
    /\ last_sent = 0
    /\ received_messages = <<>>
    /\ incoming_udp = <<>>
    /\ outgoing_udp = <<>>
    /\ now = 0
    /\ written = <<>>
    /\ shut_in = "never"
    /\ prev_send = -1
    /\ reinit = FALSE
    /\ between = 0
    /\ out_at = -1
    /\ max_tsn_call = [a |-> 0, b |-> 0, r |-> -1]
    /\ shim_call = ShimIdle
    /\ drain = DrainIdle
    /\ socket = SocketBound

ReceiveIncoming(d, e) ==
    LET r == receive_incoming_packet(Call(e), d, e)
    IN  /\ Fits(r)
        /\ Install(r)
        /\ UNCHANGED now

TakeOutgoing ==
    /\ Install([AfterTake(Self) EXCEPT !.written = <<>>])
    /\ UNCHANGED now

SendMessage(m, e) ==
    LET r == send_message(Call(e), m[1], m[2])
    IN  /\ Fits(r)
        /\ Install(r)
        /\ UNCHANGED now

GeneratePeriodic(e) ==
    LET r == generate_periodic(Call(e))
    IN  /\ Fits(r)
        /\ Install(r)
        /\ UNCHANGED now

StartShutdown(e) ==
    LET r == start_shutdown(Call(e), e.tls)
    IN  /\ Fits(r)
        /\ Install(r)
        /\ UNCHANGED now

ReceiveMessages ==
    /\ Install(AfterReceive(Self))
    /\ UNCHANGED now

(* send_message with the TSN counter capped: a send that goes out carries  *)
(* one of the MaxSends TSNs from the last of the TSN space on              *)
SendMessageCapped(m, e) ==
    /\ is_established => (sctp_local_tsn + 1) % TsnMod < MaxSends
    /\ SendMessage(m, e)

----------------------------------------------------------------------------
(* Spec: every entry point, the peer's datagrams of Datagrams, and the     *)
(* phase of the owner's latest start_shutdown call kept as history.        *)

Next ==
    \/ \E d \in Datagrams : \E e \in RecvEnvs(d) :
          ReceiveIncoming(d, e) /\ UNCHANGED <<shut_in, sendhist, aux>>
    \/ TakeOutgoing /\ UNCHANGED <<shut_in, sendhist, aux>>
    \/ \E m \in LifeMessages, e \in SendEnvs :
          SendMessage(m, e) /\ UNCHANGED <<shut_in, sendhist, aux>>
    \/ \E e \in PeriodicEnvs : GeneratePeriodic(e) /\ UNCHANGED <<shut_in, sendhist, aux>>
    \/ \E e \in ShutdownEnvs :
          StartShutdown(e) /\ shut_in' = ssl_state /\ UNCHANGED <<sendhist, aux>>
    \/ ReceiveMessages /\ UNCHANGED <<shut_in, sendhist, aux>>

Spec == Init /\ [][Next]_vars

----------------------------------------------------------------------------
(* SpecSend: every entry point, the peer's datagrams of SendDatagrams, and *)
(* the TSN of the latest successful send_message kept as history, with     *)
(* what the Client did to its TSN since.                                   *)

SendDatagrams ==
    {AppRecord(InPacket(<<c>>)) :
        c \in {InitChunk(9, 0), CookieEchoChunk(SCTP_COOKIE),
               DataChunk(1, 1, DATA_CHANNEL_PROTO_CONTROL, OpenBody)}}
    \cup {[kind |-> "close_notify"]}

IsData(dgram) == dgram.kind = "app" /\ dgram.body.chunks[1].type = "Data"

RECURSIVE CountData(_)
CountData(q) == IF q = <<>> THEN 0 ELSE (IF IsData(Head(q)) THEN 1 ELSE 0) + CountData(Tail(q))

NewlyWritten(r) == SubSeq(r.written, Len(written) + 1, Len(r.written))

(* the for loop of receive_sctp_packet reaches an INIT chunk: no chunk     *)
(* before it returns                                                      *)
RECURSIVE ReachesInit(_, _, _, _)
ReachesInit(c, pkt, i, e) ==
    IF i > Len(pkt.chunks) THEN FALSE
    ELSE IF pkt.chunks[i].type = "Init" THEN TRUE
    ELSE LET r == ReceiveChunk(c, pkt, pkt.chunks[i], e)
         IN  /\ r.ret = "Ok"
             /\ pkt.chunks[i].type \notin {"ShutdownAck", "Abort"}
             /\ ReachesInit(r, pkt, i + 1, e)

(* the while-let loop hands a packet to receive_sctp_packet in which an    *)
(* INIT chunk is reached                                                   *)
RECURSIVE HandlesInit(_, _)
HandlesInit(c, e) ==
    IF c.ssl_state # "Established" \/ c.incoming_udp = <<>>
    THEN FALSE
    ELSE LET d == Head(c.incoming_udp)
             a == ShimPop(c)
         IN  CASE d.kind = "app" ->
                    \/ ReachesInit(a, d.body, 1, e)
                    \/ LET r == receive_sctp_packet(a, d.body, e)
                       IN  r.ret = "Ok" /\ HandlesInit(r, e)
               [] d.kind \in {"garbled", "noise"} -> HandlesInit(a, e)
               [] d.kind = "close_notify" ->
                    LET r == start_shutdown(a, e.tls)
                    IN  r.ret = "Ok" /\ HandlesInit(r, e)
               [] OTHER -> FALSE

(* some datagram of the queue has an INIT chunk: without one the loop      *)
(* reaches none                                                            *)
QueuesInit(q) == \E i \in 1..Len(q) : HasChunk(q[i], {"Init"})

HistReceive(d, e) ==
    LET r == receive_incoming_packet(Call(e), d, e)
        p == Feed(Call(e), d, e)
    IN  /\ prev_send' = prev_send
        /\ reinit' = (prev_send # -1 /\
                        (reinit \/ (/\ p.ret = "Ok"
                                    /\ QueuesInit(p.incoming_udp)
                                    /\ HandlesInit(p, e))))
        /\ between' = IF prev_send = -1 THEN 0
                      ELSE Min(TsnHalf, between + CountData(NewlyWritten(r)))

HistSend(m, e) ==
    LET r == send_message(Call(e), m[1], m[2])
    IN  IF r.ret = "Ok"
        THEN /\ prev_send' = r.written[Len(r.written)].body.chunks[1].tsn
             /\ reinit' = FALSE
             /\ between' = 0
        ELSE UNCHANGED sendhist

NextSend ==
    \/ \E d \in SendDatagrams : \E e \in RecvEnvs(d) :
          ReceiveIncoming(d, e) /\ HistReceive(d, e) /\ UNCHANGED <<shut_in, aux>>
    \/ TakeOutgoing /\ UNCHANGED <<shut_in, sendhist, aux>>
    \/ \E m \in Messages \cup BigMessages, e \in SendEnvs :
          SendMessage(m, e) /\ HistSend(m, e) /\ UNCHANGED <<shut_in, aux>>
    \/ \E e \in PeriodicEnvs : GeneratePeriodic(e) /\ UNCHANGED <<shut_in, sendhist, aux>>
    \/ \E e \in ShutdownEnvs : StartShutdown(e) /\ UNCHANGED <<shut_in, sendhist, aux>>
    \/ ReceiveMessages /\ UNCHANGED <<shut_in, sendhist, aux>>

SpecSend == Init /\ [][NextSend]_vars

----------------------------------------------------------------------------
(* SpecTime: the clock advancing between calls, the peer's datagrams of    *)
(* TimeDatagrams, every entry point, and the clock of the latest SCTP      *)
(* packet written kept as history.  What the chunks of AllChunks do at     *)
(* each of its states is computed from the handlers.                       *)

HeartbeatChunk == [type |-> "Heartbeat", heartbeat_info |-> "PEER-INFO"]
HeartbeatAckChunk == [type |-> "HeartbeatAck", heartbeat_info |-> SCTP_HEARTBEAT]
SAckChunk(gaps) ==
    [type |-> "SAck", cumulative_tsn_ack |-> 0, adv_recv_window |-> 1024,
     num_gap_ack_blocks |-> gaps, num_dup_tsn |-> 0]
ShutdownChunk == [type |-> "Shutdown", cumulative_tsn_ack |-> 0]
ShutdownAckChunk == [type |-> "ShutdownAck"]
ForwardTsnChunk(tsn) == [type |-> "ForwardTsn", new_cumulative_tsn |-> tsn]

(* every chunk type the Client handles, and two it ignores *)
AllChunks ==
    {InitChunk(9, 0), CookieEchoChunk(SCTP_COOKIE), CookieEchoChunk("STALE"),
     HeartbeatChunk, HeartbeatAckChunk, SAckChunk(0), SAckChunk(1),
     ShutdownChunk, ShutdownAckChunk, AbortChunk,
     ForwardTsnChunk(2), ForwardTsnChunk(TsnMod - 1),
     [type |-> "InitAck"], [type |-> "CookieAck"]}
    \cup {DataChunk(t, 1, b[1], b[2]) : t \in {1, TsnMod - 1}, b \in DataBodies}

TimeChunks ==
    {InitChunk(9, 0), CookieEchoChunk(SCTP_COOKIE), HeartbeatAckChunk, ShutdownChunk}

TimeDatagrams ==
    {AppRecord(InPacket(<<c>>)) : c \in TimeChunks} \cup {[kind |-> "close_notify"]}

Tick ==
    /\ now < MaxTime
    /\ now' = now + 1
    /\ UNCHANGED <<cvars, written, shut_in, sendhist, aux>>

WritesSctp(r) ==
    \E i \in 1..Len(NewlyWritten(r)) : NewlyWritten(r)[i].kind = "app"

HistOut(r) ==
    /\ out_at' = IF WritesSctp(r) THEN now ELSE out_at
    /\ UNCHANGED <<shut_in, sendhist, max_tsn_call, apart>>

NextTime ==
    \/ Tick
    \/ \E d \in TimeDatagrams : \E e \in RecvEnvs(d) :
          ReceiveIncoming(d, e) /\ HistOut(receive_incoming_packet(Call(e), d, e))
    \/ TakeOutgoing /\ UNCHANGED <<shut_in, sendhist, aux>>
    \/ \E m \in LifeMessages, e \in SendEnvs :
          SendMessageCapped(m, e) /\ HistOut(send_message(Call(e), m[1], m[2]))
    \/ \E e \in PeriodicEnvs :
          GeneratePeriodic(e) /\ HistOut(generate_periodic(Call(e)))
    \/ \E e \in ShutdownEnvs :
          StartShutdown(e) /\ HistOut(start_shutdown(Call(e), e.tls))
    \/ ReceiveMessages /\ UNCHANGED <<shut_in, sendhist, aux>>

SpecTime == Init /\ [][NextTime]_vars

----------------------------------------------------------------------------
(* SpecChunks: every entry point, under the chunks Spec's peer does not    *)
(* send: retransmitted and stale COOKIE-ECHO, SACK, FORWARD-TSN,           *)
(* SHUTDOWN-ACK, DATA of an unknown PPID.  No history is kept.             *)

ChunkDatagrams ==
    {AppRecord(InPacket(<<c>>)) :
        c \in {InitChunk(9, 0), CookieEchoChunk(SCTP_COOKIE), CookieEchoChunk("STALE"),
               SAckChunk(1), ShutdownAckChunk,
               ForwardTsnChunk(2), ForwardTsnChunk(TsnMod - 1),
               DataChunk(1, 1, 99, OpenBody)}}
    \cup {[kind |-> "close_notify"]}

NextChunks ==
    \/ \E d \in ChunkDatagrams : \E e \in RecvEnvs(d) :
          ReceiveIncoming(d, e) /\ UNCHANGED <<shut_in, sendhist, aux>>
    \/ TakeOutgoing /\ UNCHANGED <<shut_in, sendhist, aux>>
    \/ \E m \in LifeMessages, e \in SendEnvs :
          SendMessage(m, e) /\ UNCHANGED <<shut_in, sendhist, aux>>
    \/ \E e \in PeriodicEnvs : GeneratePeriodic(e) /\ UNCHANGED <<shut_in, sendhist, aux>>
    \/ \E e \in ShutdownEnvs :
          StartShutdown(e) /\ UNCHANGED <<shut_in, sendhist, aux>>
    \/ ReceiveMessages /\ UNCHANGED <<shut_in, sendhist, aux>>

SpecChunks == Init /\ [][NextChunks]_vars

----------------------------------------------------------------------------
(* SpecData: every entry point, and the peer's DATA chunks, a              *)
(* DATA_CHANNEL_OPEN and a text, on two streams and with repeated TSNs.    *)

DataDatagrams ==
    {AppRecord(InPacket(<<c>>)) :
        c \in {InitChunk(9, 0), CookieEchoChunk(SCTP_COOKIE),
               DataChunk(1, 1, DATA_CHANNEL_PROTO_CONTROL, OpenBody),
               DataChunk(1, 0, DATA_CHANNEL_PROTO_STRING, TextBody)}}

NextData ==
    \/ \E d \in DataDatagrams : \E e \in RecvEnvs(d) :
          ReceiveIncoming(d, e) /\ UNCHANGED <<shut_in, sendhist, aux>>
    \/ TakeOutgoing /\ UNCHANGED <<shut_in, sendhist, aux>>
    \/ \E m \in LifeMessages, e \in SendEnvs :
          SendMessageCapped(m, e) /\ UNCHANGED <<shut_in, sendhist, aux>>
    \/ \E e \in PeriodicEnvs : GeneratePeriodic(e) /\ UNCHANGED <<shut_in, sendhist, aux>>
    \/ \E e \in ShutdownEnvs : StartShutdown(e) /\ UNCHANGED <<shut_in, sendhist, aux>>
    \/ ReceiveMessages /\ UNCHANGED <<shut_in, sendhist, aux>>

SpecData == Init /\ [][NextData]_vars

----------------------------------------------------------------------------
(* SpecMaxTsn: max_tsn called by itself on every pair of TSNs *)

Tsns == 0..(TsnMod - 1)

InitMaxTsn ==
    /\ ssl_state = "Handshake"
    /\ sctp_state = "Shutdown"
    /\ sctp_local_port = 0
    /\ sctp_remote_port = 0
    /\ sctp_local_verification_tag = 0
    /\ sctp_remote_verification_tag = 0
    /\ sctp_local_tsn = 0
    /\ sctp_remote_tsn = 0
    /\ last_activity = 0
    /\ last_sent = 0
    /\ received_messages = <<>>
    /\ incoming_udp = <<>>
    /\ outgoing_udp = <<>>
    /\ now = 0
    /\ written = <<>>
    /\ shut_in = "never"
    /\ prev_send = -1
    /\ reinit = FALSE
    /\ between = 0
    /\ out_at = -1
    /\ max_tsn_call \in [a : Tsns, b : Tsns, r : {-1}]
    /\ shim_call = ShimIdle
    /\ drain = DrainIdle
    /\ socket = SocketBound

CallMaxTsn ==
    /\ max_tsn_call.r = -1
    /\ max_tsn_call' = [max_tsn_call EXCEPT !.r = max_tsn(max_tsn_call.a, max_tsn_call.b)]
    /\ UNCHANGED <<cvars, now, written, shut_in, sendhist, out_at, apart>>

NextMaxTsn == CallMaxTsn

SpecMaxTsn == InitMaxTsn /\ [][NextMaxTsn]_vars

----------------------------------------------------------------------------
(* SpecDrain: receive_incoming_packet run one iteration of its loop at a   *)
(* time.  A call that has entered its loop goes on to the end: the owner   *)
(* calls nothing else meanwhile.                                           *)

DrainDatagrams ==
    {AppRecord(InPacket(<<c>>)) :
        c \in {InitChunk(9, 0), CookieEchoChunk(SCTP_COOKIE),
               DataChunk(1, 0, DATA_CHANNEL_PROTO_STRING, TextBody)}}
    \cup {AppRecord(InPacket(<<ShutdownAckChunk, HeartbeatChunk>>))}
    \cup TlsDatagrams \cup {[kind |-> "oversize"]}

(* the client in the call under way *)
DrainClient == [Self EXCEPT !.wleft = drain.wleft, !.ret = drain.ret]

notdrain == <<shut_in, sendhist, out_at, max_tsn_call, shim_call, socket>>

(* a call writes two datagrams at most and enqueues one message at most *)
Enter(d, e) ==
    LET r == Feed(Call(e), d, e)
    IN  /\ drain.pc = "idle"
        /\ Len(written) + 2 <= MaxOut
        /\ Len(received_messages) + 1 <= MaxMsgs
        /\ Len(r.incoming_udp) <= MaxIn
        /\ Install(r)
        /\ drain' = IF r.ret = "Ok"
                     THEN [pc |-> "loop", d |-> d, env |-> e, wleft |-> r.wleft,
                           ret |-> r.ret]
                     ELSE [DrainIdle EXCEPT !.d = d, !.ret = r.ret]
        /\ UNCHANGED <<now, notdrain>>

Iterate ==
    LET s == DrainStep(DrainClient, drain.env)
    IN  /\ drain.pc = "loop"
        /\ Install(s.client)
        /\ drain' = IF s.again
                     THEN [drain EXCEPT !.wleft = s.client.wleft]
                     ELSE [DrainIdle EXCEPT !.d = drain.d, !.ret = s.client.ret]
        /\ UNCHANGED <<now, notdrain>>

NextDrain ==
    \/ \E d \in DrainDatagrams : \E e \in RecvEnvs(d) : Enter(d, e)
    \/ Iterate
    \/ drain.pc = "idle" /\ TakeOutgoing /\ UNCHANGED <<drain, notdrain>>
    \/ drain.pc = "idle" /\ ReceiveMessages /\ UNCHANGED <<drain, notdrain>>
    \/ \E m \in LifeMessages, e \in SendEnvs :
          drain.pc = "idle" /\ SendMessageCapped(m, e) /\ UNCHANGED <<drain, notdrain>>
    \/ \E e \in PeriodicEnvs :
          drain.pc = "idle" /\ GeneratePeriodic(e) /\ UNCHANGED <<drain, notdrain>>
    \/ \E e \in ShutdownEnvs :
          drain.pc = "idle" /\ StartShutdown(e) /\ UNCHANGED <<drain, notdrain>>

SpecDrain == Init /\ [][NextDrain]_vars /\ WF_vars(Iterate)

----------------------------------------------------------------------------
(* SpecShim: ClientSslPackets by itself.  A datagram is the sequence of    *)
(* its bytes; the caller's buffer is a sequence of buf.len() bytes.        *)

(* a buffer as the caller hands it over: len bytes of 0 *)
Zeroed(len) == [i \in 1..len |-> 0]

(* the datagram of n bytes, each of value n *)
ShimDatagram(n) == [i \in 1..n |-> n]

ShimDatagrams == {ShimDatagram(n) : n \in 0..MaxLen}

(* an oversized datagram is cut to the buffer *)
read_some(incoming, buf) ==
    IF incoming # <<>>
    THEN LET next_packet == Head(incoming)
             n == IF Len(next_packet) > Len(buf) THEN Len(buf) ELSE Len(next_packet)
         IN  [ret |-> "Ok", n |-> n,
              buf |-> [i \in 1..Len(buf) |-> IF i <= n THEN next_packet[i] ELSE buf[i]],
              incoming_udp |-> Tail(incoming)]
    ELSE [ret |-> "WouldBlock", n |-> 0, buf |-> buf, incoming_udp |-> incoming]

(* impl Read for ClientSslPackets: fn read(&mut self, buf) *)
read(incoming, buf) ==
    IF incoming # <<>>
    THEN LET next_packet == Head(incoming)
         IN  IF Len(next_packet) > Len(buf)
             THEN [ret |-> "IncompletePacketRead", n |-> 0, buf |-> buf,
                   incoming_udp |-> Tail(incoming)]
             ELSE [ret |-> "Ok", n |-> Len(next_packet),
                   buf |-> [i \in 1..Len(buf) |->
                               IF i <= Len(next_packet) THEN next_packet[i] ELSE buf[i]],
                   incoming_udp |-> Tail(incoming)]
    ELSE [ret |-> "WouldBlock", n |-> 0, buf |-> buf, incoming_udp |-> incoming]

(* impl Write for ClientSslPackets: fn write(&mut self, buf) *)
write(outgoing, buf) ==
    [ret |-> "Ok", n |-> Len(buf), outgoing_udp |-> Append(outgoing, buf)]

(* incoming_udp.push_back(udp_packet) *)
ShimPush(d) ==
    /\ Len(incoming_udp) < MaxOut
    /\ incoming_udp' = Append(incoming_udp, d)
    /\ UNCHANGED <<outgoing_udp, shim_call>>

ShimRead(len) ==
    LET r == read(incoming_udp, Zeroed(len))
    IN  /\ incoming_udp' = r.incoming_udp
        /\ shim_call' = [op |-> "read", ret |-> r.ret, n |-> r.n, buf |-> r.buf]
        /\ UNCHANGED outgoing_udp

ShimWriteCall(d) ==
    LET w == write(outgoing_udp, d)
    IN  /\ Len(outgoing_udp) < MaxOut
        /\ outgoing_udp' = w.outgoing_udp
        /\ shim_call' = [op |-> "write", ret |-> w.ret, n |-> w.n, buf |-> d]
        /\ UNCHANGED incoming_udp

(* outgoing_udp.drain(..) *)
ShimDrain ==
    /\ outgoing_udp' = <<>>
    /\ UNCHANGED <<incoming_udp, shim_call>>

NextShim ==
    /\ \/ \E d \in ShimDatagrams : ShimPush(d)
       \/ \E len \in 0..MaxLen : ShimRead(len)
       \/ \E d \in ShimDatagrams : ShimWriteCall(d)
       \/ ShimDrain
    /\ UNCHANGED <<ssl_state, sctp_state, sctp_local_port, sctp_remote_port,
                   sctp_local_verification_tag, sctp_remote_verification_tag,
                   sctp_local_tsn, sctp_remote_tsn, last_activity, last_sent,
                   received_messages, now, written, shut_in, sendhist,
                   out_at, max_tsn_call, drain, socket>>

SpecShim == Init /\ [][NextShim]_vars

----------------------------------------------------------------------------
(* SpecSocket: WebrtcServerSocket (mod.rs).  bind() makes two bounded      *)
(* channels; get_sender() hands out a clone of the sender of one, and each *)
(* round of the loop in receive() selects among the receiver of the other, *)
(* the RTC server's events and messages, and the timer.  A bounded channel *)
(* takes a message from any sender that is not parked, and parks the       *)
(* sender when the channel then holds more than its buffer size: n senders *)
(* can put MESSAGE_BUFFER_SIZE + n messages in it.  A parked sender is     *)
(* released when the receiver takes a message.                             *)

ClientEvents ==
    {[type |-> "Message", address |-> "peer", message |-> "x"],
     [type |-> "Connection", address |-> "peer"]}

notsocket == <<cvars, now, written, shut_in, sendhist, out_at, max_tsn_call,
               shim_call, drain>>

Senders == 1..socket.senders

(* fn get_sender: one more clone of to_server_sender *)
GetSender ==
    /\ socket.senders < MaxSenders
    /\ socket' = [socket EXCEPT !.senders = @ + 1]
    /\ UNCHANGED notsocket

(* the owner sends on a Sender that get_sender() returned *)
SenderSend(s, ev) ==
    /\ s \in Senders \ socket.parked
    /\ socket' = [socket EXCEPT
                     !.to_server = Append(@, ev),
                     !.parked = IF Len(socket.to_server) + 1 > MESSAGE_BUFFER_SIZE
                                THEN @ \cup {s} ELSE @]
    /\ UNCHANGED notsocket

(* what select! can yield: the futures that are ready *)
Ready ==
    {"IncomingMessage", "IncomingError", "Connection", "Disconnection", "PeriodicTimer"}
    \cup (IF socket.to_client # <<>> THEN {"OutgoingMessage"} ELSE {})

(* receive(), a step at a time: a round of its loop up to the return, the  *)
(* next round or the await of rtc_server.send, and that await completing.  *)
(* returned is what the latest call returned, "None" while it runs.        *)
ReceiveLoop ==
    /\ IF socket.pc = "sending"
       THEN socket' = [socket EXCEPT !.rtc_sent = Append(@, socket.out),
                                     !.out = [type |-> "None"], !.pc = "select"]
       ELSE \E next \in Ready :
              socket' =
                  CASE next = "OutgoingMessage" ->
                         IF Head(socket.to_client).type = "Message"
                         THEN [socket EXCEPT !.to_client = Tail(@),
                                             !.out = Head(socket.to_client),
                                             !.pc = "sending", !.returned = "None"]
                         ELSE [socket EXCEPT !.to_client = Tail(@), !.returned = "None"]
                    [] next = "IncomingError" -> [socket EXCEPT !.returned = "None"]
                    [] next = "IncomingMessage" -> [socket EXCEPT !.returned = "Message"]
                    [] next = "PeriodicTimer" -> [socket EXCEPT !.returned = "Tick"]
                    [] OTHER -> [socket EXCEPT !.returned = next]
    /\ UNCHANGED notsocket

NextSocket ==
    \/ GetSender
    \/ \E s \in Senders, ev \in ClientEvents : SenderSend(s, ev)
    \/ ReceiveLoop

SpecSocket == Init /\ [][NextSocket]_vars /\ WF_vars(ReceiveLoop)

----------------------------------------------------------------------------
(* The claims *)

Rank(phase) ==
    CASE phase = "Handshake" -> 0
      [] phase = "Established" -> 1
      [] phase = "ShuttingDown" -> 2
      [] OTHER -> 3

(* a < b in serial-number order over TsnBits-bit values *)
TsnLess(a, b) == LET d == (b - a + TsnMod) % TsnMod IN d > 0 /\ d < TsnHalf

IsChunk(dgram, type) == dgram.kind = "app" /\ dgram.body.chunks[1].type = type

(* the packet the Client builds around one chunk in the current state *)
OwnPacket(chunk) ==
    AppRecord([source_port |-> sctp_local_port, dest_port |-> sctp_remote_port,
               verification_tag |-> sctp_remote_verification_tag, chunks |-> <<chunk>>])

(* C1: in every reachable state, states left by a failed call included, a  *)
(* DTLS phase other than Established comes with the SCTP phase Shutdown.   *)
(* The code breaks it: see C1_HalfShutdown.                                *)
C1_PhaseInvariant ==
    ssl_state # "Established" => sctp_state = "Shutdown"

(* C1: the state start_shutdown leaves when the write of its ABORT fails:  *)
(* DTLS Shutdown, SCTP still InitAck or Established.                       *)
C1_HalfShutdown ==
    ssl_state = "Shutdown" /\ sctp_state # "Shutdown"

(* C2, as stated: once start_shutdown has been called in any DTLS phase,   *)
(* no send_message succeeds.                                               *)
C2_SendFailsAfterAnyShutdown ==
    shut_in # "never" =>
        \A m \in Messages, e \in SendEnvs : send_message(Call(e), m[1], m[2]).ret # "Ok"

(* C2, amended: once start_shutdown has been called in the DTLS phase      *)
(* Established, ShuttingDown or Shutdown, every send_message returns       *)
(* NotConnected, whatever was called since; a call made in Handshake is a  *)
(* no-op, and send_message returns NotConnected after it for as long as    *)
(* the handshake has not finished.                                         *)
C2_SendFailsAfterShutdown ==
    /\ shut_in \in {"Established", "ShuttingDown", "Shutdown"} =>
          /\ ssl_state \in {"ShuttingDown", "Shutdown"}
          /\ \A m \in Messages, e \in SendEnvs :
                send_message(Call(e), m[1], m[2]) = [Call(e) EXCEPT !.ret = "NotConnected"]
    /\ shut_in = "Handshake" /\ ssl_state = "Handshake" =>
          \A m \in Messages, e \in SendEnvs :
                send_message(Call(e), m[1], m[2]) = [Call(e) EXCEPT !.ret = "NotConnected"]

(* C2: start_shutdown was called on an established Client, which has since *)
(* taken its datagrams and waits for the peer's close-notify.              *)
C2_Witness ==
    /\ shut_in = "Established" /\ ssl_state = "ShuttingDown" /\ written = <<>>
    /\ send_message(Call(QuietEnv), "Text", TextBody).ret = "NotConnected"

(* C2: the call made during the handshake, the handshake then finished and *)
(* the association set up.                                                 *)
C2_SentAfterShutdownInHandshake ==
    /\ shut_in = "Handshake" /\ is_established
    /\ send_message(Call(QuietEnv), "Text", TextBody).ret = "Ok"

(* C3: send_message returns NotConnected when DTLS is not Established and  *)
(* NotEstablished when DTLS is Established and SCTP is not, whatever the   *)
(* payload, one too long for a packet included; in both cases it writes    *)
(* nothing and changes no field of the Client.                             *)
C3_SendErrors ==
    \A m \in Messages \cup BigMessages, w \in WriteResults :
        LET c == [Self EXCEPT !.wleft = w]
            r == send_message(c, m[1], m[2])
        IN  /\ ssl_state # "Established" => r = [c EXCEPT !.ret = "NotConnected"]
            /\ ssl_state = "Established" /\ sctp_state # "Established" =>
                  r = [c EXCEPT !.ret = "NotEstablished"]

(* C3: DTLS Established, INIT answered, COOKIE-ECHO not yet received *)
C3_Witness ==
    /\ ssl_state = "Established" /\ sctp_state = "InitAck"
    /\ send_message(Call(QuietEnv), "Binary", <<>>).ret = "NotEstablished"

(* C4: a successful send_message writes exactly one packet with exactly    *)
(* one DATA chunk: PPID 51 for Text and 53 for Binary, stream 0, sequence *)
(* 0, tsn = local_tsn before the call; local_tsn is then that value plus   *)
(* one modulo 2^TsnBits; a second send_message right after carries the     *)
(* next TSN, and local_tsn follows the TSN of the latest send for as long  *)
(* as the Client has received no INIT and written no DATA chunk of its own *)
(* since.  A send_message succeeds when the packet fits                    *)
(* MAX_SCTP_PACKET_SIZE and the TLS library takes it; with a payload one   *)
(* byte longer than fits it returns IncompletePacketWrite, writes nothing  *)
(* and leaves local_tsn.                                                   *)
C4_SendData ==
    /\ is_established =>
          /\ send_message(Call(QuietEnv), "Binary", LongestBody).ret = "Ok"
          /\ \A m \in BigMessages, w \in WriteResults :
                LET c == [Self EXCEPT !.wleft = w]
                IN  send_message(c, m[1], m[2]) = [c EXCEPT !.ret = "IncompletePacketWrite"]
    /\ \A m \in Messages, n \in Messages, w \in WriteResults :
          LET c == [Self EXCEPT !.wleft = w]
              r == send_message(c, m[1], m[2])
              q == send_message(r, n[1], n[2])
              data(msg, tsn) ==
                  [type |-> "Data", tsn |-> tsn, stream_id |-> 0, stream_seq |-> 0,
                   proto_id |-> IF msg[1] = "Text" THEN 51 ELSE 53, user_data |-> msg[2]]
          IN  is_established =>
                /\ r.ret = "Ok" <=> w > 0
                /\ r.ret = "Ok" =>
                      /\ NewlyWritten(r) = <<OwnPacket(data(m, sctp_local_tsn))>>
                      /\ r.outgoing_udp = Append(outgoing_udp, OwnPacket(data(m, sctp_local_tsn)))
                      /\ r.sctp_local_tsn = (sctp_local_tsn + 1) % TsnMod
                /\ q.ret = "Ok" =>
                      /\ NewlyWritten(q) =
                            <<OwnPacket(data(m, sctp_local_tsn)),
                              OwnPacket(data(n, (sctp_local_tsn + 1) % TsnMod))>>
                      /\ q.sctp_local_tsn = (sctp_local_tsn + 2) % TsnMod
    /\ prev_send # -1 /\ ~reinit /\ between = 0 =>
          sctp_local_tsn = (prev_send + 1) % TsnMod

(* C4: the send whose TSN was the largest value; local_tsn has wrapped *)
C4_Witness ==
    /\ prev_send = TsnMod - 1 /\ sctp_local_tsn = 0 /\ ~reinit /\ between = 0
    /\ written # <<>> /\ IsChunk(written[Len(written)], "Data")
    /\ written[Len(written)].body.chunks[1].tsn = TsnMod - 1

(* C5, as stated: whatever the Client received and was asked since its     *)
(* latest successful send_message, the next one carries a TSN that is      *)
(* after that send's in serial-number order.                               *)
C5_SendTsnIncreasesAlways ==
    prev_send # -1 =>
        \A m \in Messages :
            LET r == send_message(Call(QuietEnv), m[1], m[2])
            IN  r.ret = "Ok" =>
                    TsnLess(prev_send, NewlyWritten(r)[1].body.chunks[1].tsn)

(* C5, amended: if the Client has received no INIT since its latest        *)
(* successful send_message and has written k DATA_CHANNEL_ACK chunks since *)
(* (k + 1 < 2^(TsnBits-1)), the next successful send_message carries that  *)
(* send's TSN plus k + 1, which is after it in serial-number order.        *)
C5_SendTsnIncreases ==
    prev_send # -1 /\ ~reinit /\ between < TsnHalf - 1 =>
        \A m \in Messages :
            LET r == send_message(Call(QuietEnv), m[1], m[2])
                tsn == NewlyWritten(r)[1].body.chunks[1].tsn
            IN  r.ret = "Ok" =>
                    /\ tsn = (prev_send + between + 1) % TsnMod
                    /\ TsnLess(prev_send, tsn)

(* C5: a send, then a DATA_CHANNEL_ACK written, the Client able to send *)
C5_Witness ==
    /\ prev_send # -1 /\ ~reinit /\ between = 1 /\ is_established
    /\ sctp_local_tsn = (prev_send + 2) % TsnMod

(* C5: a send, then an INIT, then the association set up again with a      *)
(* local_tsn that is not after the TSN sent.                               *)
C5_TsnRedrawn ==
    /\ prev_send # -1 /\ reinit /\ is_established
    /\ ~TsnLess(prev_send, sctp_local_tsn)

(* what one DATA chunk, alone in its packet, makes the Client write in a   *)
(* call in which the TLS library accepts w writes                          *)
DataResult(t, b, w) ==
    receive_sctp_packet([Self EXCEPT !.wleft = w],
                        InPacket(<<DataChunk(t, 1, b[1], b[2])>>),
                        [QuietEnv EXCEPT !.wok = w])

WrittenForData(t, b, w) == NewlyWritten(DataResult(t, b, w))

IsOpen(b) == b[1] = 50 /\ b[2] # <<>> /\ b[2][1] = 3

ExpectedSAck(t) ==
    OwnPacket([type |-> "SAck", cumulative_tsn_ack |-> max_tsn(sctp_remote_tsn, t),
               adv_recv_window |-> SCTP_BUFFER_SIZE,
               num_gap_ack_blocks |-> 0, num_dup_tsn |-> 0])

ExpectedAck ==
    OwnPacket([type |-> "Data", tsn |-> sctp_local_tsn, stream_id |-> 1,
               stream_seq |-> 0, proto_id |-> DATA_CHANNEL_PROTO_CONTROL,
               user_data |-> <<DATA_CHANNEL_MESSAGE_ACK>>])

(* the packets a DATA chunk is answered with, in the order written *)
AnswerToData(t, b) ==
    IF IsOpen(b) THEN <<ExpectedAck, ExpectedSAck(t)>> ELSE <<ExpectedSAck(t)>>

(* TSNs at, next to and across the wrap from remote_tsn *)
NearTsns == {sctp_remote_tsn, wrapping_add(sctp_remote_tsn, 1), TsnMod - 1}

(* C6, as stated: for every received DATA chunk the next packet the Client *)
(* writes holds the SACK.                                                  *)
C6_SackIsNextPacket ==
    ssl_state = "Established" =>
        /\ \A t \in PeerTsns, b \in DataBodies :
              LET new == WrittenForData(t, b, NoWriteFails)
              IN  new # <<>> /\ new[1] = ExpectedSAck(t)
        /\ \A t \in NearTsns, b \in DataBodies, w \in {0, 1} :
              LET new == WrittenForData(t, b, w)
              IN  new # <<>> /\ new[1] = ExpectedSAck(t)

(* C6, amended: a received DATA chunk is answered with a SACK that has     *)
(* cumulative_tsn_ack = max_tsn(remote_tsn before, chunk tsn), window      *)
(* SCTP_BUFFER_SIZE, no gap blocks and no duplicates, written after the    *)
(* DATA_CHANNEL_ACK when the chunk is a DATA_CHANNEL_OPEN (PPID 50, first  *)
(* byte 3) and as the next packet otherwise.  When the TLS library fails   *)
(* one of these writes the call returns TlsError there: the packets before *)
(* the failed write are written, the failed one and those after it are     *)
(* not, so no SACK is written unless every write succeeds.                 *)
C6_SackFollowsData ==
    ssl_state = "Established" =>
        /\ \A t \in PeerTsns, b \in DataBodies :
              /\ WrittenForData(t, b, NoWriteFails) = AnswerToData(t, b)
              /\ DataResult(t, b, NoWriteFails).ret = "Ok"
        /\ \A t \in NearTsns, b \in DataBodies, w \in {0, 1} :
              LET r == DataResult(t, b, w)
                  full == AnswerToData(t, b)
              IN  /\ NewlyWritten(r) = SubSeq(full, 1, Min(w, Len(full)))
                  /\ r.ret = IF w >= Len(full) THEN "Ok" ELSE "TlsError"
                  /\ r.sctp_remote_tsn = max_tsn(sctp_remote_tsn, t)

(* C6: a DATA_CHANNEL_OPEN was received: the ACK and then the SACK written *)
C6_Witness ==
    /\ Len(written) = 2
    /\ IsChunk(written[1], "Data") /\ written[1].body.chunks[1].proto_id = 50
    /\ IsChunk(written[2], "SAck")
    /\ written[2].body.chunks[1].cumulative_tsn_ack = sctp_remote_tsn

(* C7: in every DTLS phase a take_outgoing right after a take_outgoing     *)
(* yields nothing, and take_outgoing yields nothing in the phase Shutdown. *)
C7_SecondTakeEmpty ==
    /\ take_outgoing_packets(AfterTake(Self)) = <<>>
    /\ AfterTake(AfterTake(Self)) = AfterTake(Self)
    /\ ssl_state = "Shutdown" => take_outgoing_packets(Self) = <<>>

(* C7: datagrams were written and taken, and none written since *)
C7_Witness ==
    /\ ssl_state = "ShuttingDown" /\ written = <<>> /\ outgoing_udp = <<>>
    /\ take_outgoing_packets(Self) = <<>>

(* C8: take_outgoing yields every datagram the shim was given since the    *)
(* previous take_outgoing, once each and in order.  The code breaks it:    *)
(* see C8_DatagramsLost.                                                   *)
C8_TakeYieldsAllWritten ==
    take_outgoing_packets(Self) = written

(* C8: the ABORT and the close-notify written by start_shutdown, gone with *)
(* the TLS session when shutdown() reports Received.                       *)
C8_DatagramsLost ==
    /\ ssl_state = "Shutdown" /\ Len(written) = 2
    /\ IsChunk(written[1], "Abort") /\ written[2] = CloseNotifyRecord
    /\ take_outgoing_packets(Self) = <<>>

(* C9: the DTLS phase never moves back in the order Handshake,             *)
(* Established, ShuttingDown, Shutdown; in Shutdown receive_incoming       *)
(* returns NotConnected and changes nothing, and so do the other entry     *)
(* points change nothing of the phase.                                     *)
C9_PhaseMonotone ==
    /\ [](ssl_state = "Shutdown" =>
            \A d \in Datagrams : \A e \in RecvEnvs(d) :
                receive_incoming_packet(Call(e), d, e) = [Call(e) EXCEPT !.ret = "NotConnected"])
    /\ [][Rank(ssl_state') >= Rank(ssl_state)]_vars

(* C9: the phase Shutdown reached through ShuttingDown *)
C9_Witness ==
    /\ ssl_state = "Shutdown" /\ shut_in = "Established" /\ sctp_state = "Shutdown"
    /\ written = <<>>
    /\ receive_incoming_packet(Call(QuietEnv), CloseNotifyRecord, QuietEnv).ret = "NotConnected"

(* C10: start_shutdown on an established DTLS session, when no write fails *)
(* and shutdown() reports Sent or Received: with the SCTP phase not        *)
(* Shutdown it writes exactly one ABORT packet with the remote             *)
(* verification tag, then the close-notify; with the SCTP phase Shutdown   *)
(* only the close-notify; the SCTP phase is Shutdown afterwards and the    *)
(* DTLS phase ShuttingDown for Sent, Shutdown for Received.                *)
C10_ShutdownEstablished ==
    ssl_state = "Established" =>
        \A sd \in {"Sent", "Received"} :
            LET r == start_shutdown(Call(QuietEnv), sd)
                abort == IF sctp_state # "Shutdown"
                         THEN <<OwnPacket([type |-> "Abort"])>>
                         ELSE <<>>
            IN  /\ r.ret = "Ok"
                /\ NewlyWritten(r) = abort \o <<CloseNotifyRecord>>
                /\ r.sctp_state = "Shutdown"
                /\ r.ssl_state = IF sd = "Sent" THEN "ShuttingDown" ELSE "Shutdown"
                /\ sd = "Sent" => r.outgoing_udp = outgoing_udp \o abort \o <<CloseNotifyRecord>>

(* C10: the ABORT with the peer's tag and the close-notify, written by a   *)
(* start_shutdown on an established association.                           *)
C10_Witness ==
    /\ shut_in = "Established" /\ ssl_state = "ShuttingDown" /\ Len(written) = 2
    /\ IsChunk(written[1], "Abort") /\ written[1].body.verification_tag = 9
    /\ written[2] = CloseNotifyRecord /\ outgoing_udp = written

(* C11: start_shutdown in the DTLS phase Handshake, ShuttingDown or        *)
(* Shutdown returns Ok, writes nothing and changes no field of the Client, *)
(* whatever shutdown() would have reported.                                *)
C11_ShutdownNoOp ==
    ssl_state # "Established" =>
        \A sd \in {"Sent", "Received", "Error"}, w \in WriteResults :
            LET c == [Self EXCEPT !.wleft = w]
            IN  start_shutdown(c, sd) = c

(* C11: start_shutdown was called while shutting down, with datagrams      *)
(* still queued, and the Client is as it was.                              *)
C11_Witness ==
    /\ shut_in = "ShuttingDown" /\ ssl_state = "ShuttingDown"
    /\ outgoing_udp # <<>> /\ outgoing_udp = written
    /\ start_shutdown(Call(QuietEnv), "Sent") = Call(QuietEnv)

(* C13: max_tsn is commutative and idempotent, returns one of its          *)
(* arguments, and max_tsn(a, a+k mod 2^w) = a+k mod 2^w for every k below  *)
(* 2^(w-1), wrap-around included (w = TsnBits).                            *)
C13_MaxTsn ==
    /\ \A a \in Tsns, b \in Tsns :
          /\ max_tsn(a, b) = max_tsn(b, a)
          /\ max_tsn(a, a) = a
          /\ max_tsn(a, b) \in {a, b}
    /\ \A a \in Tsns, k \in 0..(TsnHalf - 1) :
          max_tsn(a, (a + k) % TsnMod) = (a + k) % TsnMod
    /\ max_tsn_call.r # -1 =>
          /\ max_tsn_call.r \in {max_tsn_call.a, max_tsn_call.b}
          /\ (max_tsn_call.b - max_tsn_call.a + TsnMod) % TsnMod < TsnHalf =>
                max_tsn_call.r = max_tsn_call.b

(* C13: the call whose second argument is one past the largest value *)
C13_Witness ==
    /\ max_tsn_call.a = TsnMod - 1 /\ max_tsn_call.b = 0 /\ max_tsn_call.r = 0

(* the environment of one call: what shutdown() reports and how many       *)
(* ssl_write calls succeed                                                 *)
Env(sd, w) ==
    [tls |-> sd, wok |-> w, rng_tag |-> 7, rng_tsn |-> 0, flight |-> 0, reads |-> 0]

(* the Client after one chunk, alone in its packet, received in the        *)
(* current state                                                           *)
AfterChunk(chunk, sd, w) ==
    receive_incoming_packet(Call(Env(sd, w)), AppRecord(InPacket(<<chunk>>)), Env(sd, w))

(* C12, first part: generate_periodic writes exactly one HEARTBEAT with    *)
(* the fixed blob and sets last_sent to now when both layers are           *)
(* Established and now - last_sent > HEARTBEAT_INTERVAL; otherwise it      *)
(* writes nothing and changes nothing.                                     *)
C12_HeartbeatWhenDue ==
    \A w \in WriteResults :
        LET c == [Self EXCEPT !.wleft = w]
            r == generate_periodic(c)
            hb == OwnPacket([type |-> "Heartbeat",
                             heartbeat_info |-> "WEBRTC-UNRELIABLE-HEARTBEAT"])
        IN  IF is_established /\ now - last_sent > 3
            THEN IF w > 0
                 THEN r = [c EXCEPT !.wleft = w - 1, !.last_sent = now,
                                    !.outgoing_udp = Append(@, hb),
                                    !.written = Append(@, hb)]
                 ELSE r = [c EXCEPT !.ret = "TlsError"]
            ELSE r = c

(* C12: the whole claim: C12_HeartbeatWhenDue, and a heartbeat is never    *)
(* written less than HEARTBEAT_INTERVAL after the latest SCTP packet the   *)
(* Client wrote.  The code breaks the second part: a SHUTDOWN-ACK, like a  *)
(* DATA chunk of send_message, leaves last_sent as it was.                 *)
C12_Heartbeat ==
    /\ C12_HeartbeatWhenDue
    /\ WritesSctp(generate_periodic(Call(QuietEnv))) => now - out_at >= HEARTBEAT_INTERVAL

(* C12: a packet was written at this very clock and a heartbeat is due *)
C12_HeartbeatRightAfterPacket ==
    /\ is_established /\ out_at = now /\ written # <<>>
    /\ IsChunk(written[Len(written)], "ShutdownAck")
    /\ WritesSctp(generate_periodic(Call(QuietEnv)))

(* C14: a COOKIE-ECHO with the fixed cookie, received with the SCTP phase  *)
(* not Shutdown, is answered with exactly one COOKIE-ACK and leaves the    *)
(* SCTP phase Established; any other COOKIE-ECHO writes nothing and        *)
(* changes nothing; and no chunk but that COOKIE-ECHO in the phase InitAck *)
(* (which only an INIT gives) and no entry point makes the SCTP phase      *)
(* Established.                                                            *)
C14_CookieEcho ==
    ssl_state = "Established" =>
        /\ \A cookie \in {SCTP_COOKIE, "STALE"} :
              LET r == AfterChunk(CookieEchoChunk(cookie), "Sent", NoWriteFails)
              IN  IF cookie = "WEBRTC-UNRELIABLE-COOKIE" /\ sctp_state # "Shutdown"
                  THEN /\ r.ret = "Ok"
                       /\ NewlyWritten(r) = <<OwnPacket([type |-> "CookieAck"])>>
                       /\ r.sctp_state = "Established"
                       /\ r.ssl_state = "Established"
                  ELSE r = Call(Env("Sent", NoWriteFails))
        /\ \A c \in AllChunks, sd \in {"Sent", "Received"} :
              LET r == AfterChunk(c, sd, NoWriteFails)
              IN  /\ r.sctp_state = "Established" /\ sctp_state # "Established" =>
                        c = CookieEchoChunk(SCTP_COOKIE) /\ sctp_state = "InitAck"
                  /\ r.sctp_state = "InitAck" /\ sctp_state # "InitAck" => c.type = "Init"
        /\ \A m \in Messages : send_message(Call(QuietEnv), m[1], m[2]).sctp_state = sctp_state
        /\ generate_periodic(Call(QuietEnv)).sctp_state = sctp_state
        /\ start_shutdown(Call(QuietEnv), "Sent").sctp_state = "Shutdown"

(* C14: the COOKIE-ACK written and the association Established *)
C14_Witness ==
    /\ is_established /\ written # <<>>
    /\ IsChunk(written[Len(written)], "CookieAck")
    /\ last_sent = now /\ last_activity = now /\ now > 0

(* C15: an INIT received with DTLS Established, in any SCTP phase, sets    *)
(* the ports from the packet, the remote tag and remote_tsn from the INIT, *)
(* the local tag and local_tsn from the random generator, writes exactly   *)
(* one INIT-ACK under the INIT's initiate_tag with window 0x40000, the     *)
(* INIT's stream counts and the fixed cookie, and sets the phase InitAck.  *)
C15_Init ==
    ssl_state = "Established" =>
        \A tag \in {9, 11}, tsn \in Tsns, rng_tsn \in RngTsns :
            LET e == [tls |-> "Sent", wok |-> NoWriteFails, rng_tag |-> 7,
                      rng_tsn |-> rng_tsn, flight |-> 0, reads |-> 0]
                init == [type |-> "Init", initiate_tag |-> tag, window_credit |-> 1024,
                         num_outbound_streams |-> 1, num_inbound_streams |-> 2,
                         initial_tsn |-> tsn]
                pkt == [source_port |-> 6000, dest_port |-> 6001, verification_tag |-> 0,
                        chunks |-> <<init>>]
                r == receive_incoming_packet(Call(e), AppRecord(pkt), e)
            IN  /\ r.ret = "Ok"
                /\ r.sctp_local_port = 6001 /\ r.sctp_remote_port = 6000
                /\ r.sctp_remote_verification_tag = tag /\ r.sctp_remote_tsn = tsn
                /\ r.sctp_local_verification_tag = 7 /\ r.sctp_local_tsn = rng_tsn
                /\ r.sctp_state = "InitAck" /\ r.ssl_state = "Established"
                /\ NewlyWritten(r) =
                      <<AppRecord([source_port |-> 6001, dest_port |-> 6000,
                                   verification_tag |-> tag,
                                   chunks |-> <<[type |-> "InitAck", initiate_tag |-> 7,
                                                 window_credit |-> 262144,
                                                 num_outbound_streams |-> 1,
                                                 num_inbound_streams |-> 2,
                                                 initial_tsn |-> rng_tsn,
                                                 state_cookie |-> "WEBRTC-UNRELIABLE-COOKIE"]>>])>>

(* C15: an INIT received on an association already Established *)
C15_Witness ==
    /\ sctp_state = "InitAck" /\ ssl_state = "Established" /\ Len(written) = 2
    /\ IsChunk(written[1], "CookieAck") /\ IsChunk(written[2], "InitAck")
    /\ written[2].body.verification_tag = 9
    /\ written[2].body.chunks[1].initial_tsn = sctp_local_tsn
    /\ sctp_local_tsn = TsnMod - 1

(* C16: an ABORT or SHUTDOWN-ACK received makes the Client write the       *)
(* close-notify and no ABORT, with the SCTP phase Shutdown and the DTLS    *)
(* phase ShuttingDown (Shutdown when shutdown() reports Received); a       *)
(* receive_incoming in ShuttingDown in which shutdown() reports Received   *)
(* gives the phase Shutdown, and the receive_incoming after it returns     *)
(* NotConnected.                                                           *)
C16_AbortReceived ==
    /\ ssl_state = "Established" =>
          \A c \in {AbortChunk, ShutdownAckChunk}, sd \in {"Sent", "Received"} :
              LET r == AfterChunk(c, sd, NoWriteFails)
              IN  /\ r.ret = "Ok"
                  /\ NewlyWritten(r) = <<CloseNotifyRecord>>
                  /\ r.sctp_state = "Shutdown"
                  /\ r.ssl_state = IF sd = "Sent" THEN "ShuttingDown" ELSE "Shutdown"
    /\ ssl_state = "ShuttingDown" =>
          \A d \in ChunkDatagrams :
              LET e == Env("Received", NoWriteFails)
                  r == receive_incoming_packet(Call(e), d, e)
                  q == receive_incoming_packet(r, d, e)
              IN  /\ r.ret = "Ok" /\ r.ssl_state = "Shutdown" /\ r.sctp_state = "Shutdown"
                  /\ q = [r EXCEPT !.ret = "NotConnected"]

(* C16: an established association closed by the peer's SHUTDOWN-ACK: the  *)
(* COOKIE-ACK and then the close-notify written, and no ABORT.             *)
C16_Witness ==
    /\ ssl_state = "ShuttingDown" /\ sctp_state = "Shutdown" /\ shut_in = "never"
    /\ Len(written) = 2 /\ IsChunk(written[1], "CookieAck")
    /\ written[2] = CloseNotifyRecord

(* C17: a HEARTBEAT-ACK received with DTLS Established sets last_activity  *)
(* to the clock, writes nothing and changes nothing else.                  *)
C17_HeartbeatAck ==
    ssl_state = "Established" =>
        \A w \in WriteResults :
            AfterChunk(HeartbeatAckChunk, "Sent", w) =
                [Call(Env("Sent", w)) EXCEPT !.last_activity = now]

(* C17: a HEARTBEAT-ACK received after the clock advanced *)
C17_Witness ==
    /\ is_established /\ last_activity = now /\ last_sent < now /\ out_at < now

(* C18: whatever operation writes an SCTP packet, last_sent is the clock   *)
(* afterwards.  The code breaks it for the SHUTDOWN-ACK and for the DATA   *)
(* chunk of send_message.                                                  *)
C18_LastSentOnEveryPacket ==
    ssl_state = "Established" =>
        /\ \A c \in AllChunks :
              LET r == AfterChunk(c, "Sent", NoWriteFails)
              IN  WritesSctp(r) => r.last_sent = now
        /\ \A m \in Messages :
              LET r == send_message(Call(QuietEnv), m[1], m[2])
              IN  WritesSctp(r) => r.last_sent = now
        /\ WritesSctp(generate_periodic(Call(QuietEnv))) =>
              generate_periodic(Call(QuietEnv)).last_sent = now
        /\ WritesSctp(start_shutdown(Call(QuietEnv), "Sent")) =>
              start_shutdown(Call(QuietEnv), "Sent").last_sent = now

(* C18: a SHUTDOWN-ACK written at this clock, last_sent earlier *)
C18_ShutdownAckUnstamped ==
    /\ out_at = now /\ last_sent < now /\ written # <<>>
    /\ IsChunk(written[Len(written)], "ShutdownAck")

(* C18, but for the SHUTDOWN-ACK and send_message: every other packet      *)
(* written by a call that returns Ok comes with last_sent = the clock.     *)
C18_LastSentButTwo ==
    ssl_state = "Established" =>
        /\ \A c \in AllChunks \ {ShutdownChunk} :
              LET r == AfterChunk(c, "Sent", NoWriteFails)
              IN  WritesSctp(r) => r.last_sent = now
        /\ WritesSctp(generate_periodic(Call(QuietEnv))) =>
              generate_periodic(Call(QuietEnv)).last_sent = now
        /\ WritesSctp(start_shutdown(Call(QuietEnv), "Sent")) =>
              start_shutdown(Call(QuietEnv), "Sent").last_sent = now

(* C19: every INIT, COOKIE-ECHO, DATA, HEARTBEAT, HEARTBEAT-ACK and SACK   *)
(* received sets last_activity to the clock, in any SCTP phase; no other   *)
(* chunk and no entry point changes it.  The code breaks it for the        *)
(* COOKIE-ECHO.                                                            *)
C19_LastActivity ==
    ssl_state = "Established" =>
        /\ \A c \in AllChunks :
              LET r == AfterChunk(c, "Sent", NoWriteFails)
              IN  IF c.type \in {"Init", "CookieEcho", "Data", "Heartbeat", "HeartbeatAck", "SAck"}
                  THEN r.last_activity = now
                  ELSE r.last_activity = last_activity
        /\ generate_periodic(Call(QuietEnv)).last_activity = last_activity
        /\ start_shutdown(Call(QuietEnv), "Sent").last_activity = last_activity
        /\ \A m \in Messages :
              send_message(Call(QuietEnv), m[1], m[2]).last_activity = last_activity

(* C19: a COOKIE-ECHO answered at this clock on an association already     *)
(* Established, last_activity earlier.                                     *)
C19_CookieEchoUnstamped ==
    /\ is_established /\ out_at = now /\ last_sent = now /\ last_activity < now
    /\ written # <<>> /\ IsChunk(written[Len(written)], "CookieAck")

(* C19, but for the COOKIE-ECHO: it sets last_activity only when it moves  *)
(* the phase from InitAck to Established.                                  *)
C19_LastActivityButCookieEcho ==
    ssl_state = "Established" =>
        \A c \in AllChunks :
            LET r == AfterChunk(c, "Sent", NoWriteFails)
            IN  IF c.type \in {"Init", "Data", "Heartbeat", "HeartbeatAck", "SAck"}
                   \/ (c = CookieEchoChunk(SCTP_COOKIE) /\ sctp_state = "InitAck")
                THEN r.last_activity = now
                ELSE r.last_activity = last_activity

(* C20, as stated: whatever chunk is received, remote_tsn afterwards is    *)
(* max_tsn of its value before and its value after.                        *)
C20_RemoteTsnForward ==
    ssl_state = "Established" =>
        \A c \in AllChunks :
            LET r == AfterChunk(c, "Sent", NoWriteFails)
            IN  r.sctp_remote_tsn = max_tsn(sctp_remote_tsn, r.sctp_remote_tsn)

(* C20, amended: a DATA chunk advances remote_tsn by max_tsn, so never     *)
(* backward; an INIT sets it to its initial_tsn and a FORWARD-TSN to its   *)
(* new_cumulative_tsn, whatever the value before; no other chunk and no    *)
(* entry point changes it.                                                 *)
C20_RemoteTsn ==
    ssl_state = "Established" =>
        /\ \A c \in AllChunks :
              LET r == AfterChunk(c, "Sent", NoWriteFails)
              IN  r.sctp_remote_tsn =
                    CASE c.type = "Data" -> max_tsn(sctp_remote_tsn, c.tsn)
                      [] c.type = "Init" -> c.initial_tsn
                      [] c.type = "ForwardTsn" -> c.new_cumulative_tsn
                      [] OTHER -> sctp_remote_tsn
        /\ \A t \in Tsns :
              LET r == AfterChunk(DataChunk(t, 0, 99, <<>>), "Sent", NoWriteFails)
              IN  r.sctp_remote_tsn = max_tsn(sctp_remote_tsn, r.sctp_remote_tsn)
        /\ \A m \in Messages :
              send_message(Call(QuietEnv), m[1], m[2]).sctp_remote_tsn = sctp_remote_tsn
        /\ start_shutdown(Call(QuietEnv), "Sent").sctp_remote_tsn = sctp_remote_tsn

(* C20: remote_tsn moved by a FORWARD-TSN to the value just behind the     *)
(* INIT's initial_tsn.                                                     *)
C20_Witness ==
    /\ ssl_state = "Established" /\ sctp_state = "Established"
    /\ sctp_remote_tsn = TsnMod - 1
    /\ max_tsn(0, sctp_remote_tsn) = 0

(* the Client after one more datagram, in the same call environment *)
Then(c, chunk) ==
    receive_incoming_packet([c EXCEPT !.ret = "Ok", !.wleft = NoWriteFails],
                            AppRecord(InPacket(<<chunk>>)), QuietEnv)

(* one body for each PPID the Data arm tells apart, and one it does not *)
PpidBodies ==
    {<<DATA_CHANNEL_PROTO_CONTROL, OpenBody>>, <<DATA_CHANNEL_PROTO_STRING, TextBody>>,
     <<DATA_CHANNEL_PROTO_BINARY, <<>> >>, <<99, OpenBody>>}

Delivered(b) ==
    CASE b[1] = 51 -> << <<"Text", b[2]>> >>
      [] b[1] = 53 -> << <<"Binary", b[2]>> >>
      [] OTHER -> <<>>

(* C21: a DATA chunk received with DTLS Established appends exactly one    *)
(* (Text, payload) for PPID 51 and one (Binary, payload) for PPID 53 to    *)
(* the pending messages, on any stream and whatever its TSN, a repeated    *)
(* TSN included, and whether or not the SACK can be written; any other     *)
(* PPID appends nothing, and a PPID that is none of 50, 51, 53 is answered *)
(* with the SACK alone; receive_messages yields the pending entries in     *)
(* arrival order and leaves none.                                          *)
C21_Delivery ==
    /\ ssl_state = "Established" =>
          \A ts \in {<<sctp_remote_tsn, 0>>, <<TsnMod - 1, 3>>}, b \in PpidBodies,
             w \in {0, NoWriteFails} :
              LET r == AfterChunk(DataChunk(ts[1], ts[2], b[1], b[2]), "Sent", w)
              IN  /\ r.received_messages = received_messages \o Delivered(b)
                  /\ w = NoWriteFails /\ b[1] = 99 =>
                        r.ret = "Ok" /\ NewlyWritten(r) = <<ExpectedSAck(ts[1])>>
                  /\ w = NoWriteFails =>
                        receive_messages(Then(r, DataChunk(ts[1], ts[2], 53, <<1, 2>>))) =
                          received_messages \o Delivered(b) \o << <<"Binary", <<1, 2>> >> >>
                  /\ AfterReceive(r) = [r EXCEPT !.received_messages = <<>>]
    /\ receive_messages(Self) = received_messages
    /\ receive_messages(AfterReceive(Self)) = <<>>

(* C21: a Text message pending, delivered by a DATA chunk on stream 0      *)
(* whose TSN was not after remote_tsn, and its SACK written.               *)
C21_Witness ==
    /\ received_messages = << <<"Text", TextBody>> >>
    /\ sctp_remote_tsn = 1 /\ Len(written) = 2
    /\ IsChunk(written[1], "SAck") /\ written[1].body.chunks[1].cumulative_tsn_ack = 1
    /\ IsChunk(written[2], "SAck") /\ written[2].body.chunks[1].cumulative_tsn_ack = 1

ControlBodies == {OpenBody, <<3, 9>>, <<7>>, <<2>>, <<>>}

(* one chunk of each type but INIT and DATA *)
OtherChunks ==
    {CookieEchoChunk(SCTP_COOKIE), HeartbeatChunk, HeartbeatAckChunk, SAckChunk(1),
     ShutdownChunk, ShutdownAckChunk, AbortChunk, ForwardTsnChunk(2),
     [type |-> "InitAck"], [type |-> "CookieAck"]}

(* C22: a DATA chunk of PPID 50 whose first byte is 3 makes the Client     *)
(* write one DATA chunk of PPID 50 with body [2], the same stream and      *)
(* tsn = local_tsn, add one to local_tsn modulo 2^TsnBits, and then write  *)
(* the SACK; with another first byte or no body it writes the SACK alone   *)
(* and leaves local_tsn; and whatever chunk but an INIT is received and    *)
(* whatever entry point is called, with or without a failing write,        *)
(* local_tsn moves by the number of DATA chunks written in the call.       *)
C22_DataChannelOpen ==
    ssl_state = "Established" =>
        /\ \A t \in {TsnMod - 1}, sid \in {0, 3}, body \in ControlBodies :
              LET r == AfterChunk(DataChunk(t, sid, 50, body), "Sent", NoWriteFails)
                  ack == OwnPacket([type |-> "Data", tsn |-> sctp_local_tsn,
                                    stream_id |-> sid, stream_seq |-> 0,
                                    proto_id |-> 50, user_data |-> <<2>>])
              IN  /\ r.ret = "Ok"
                  /\ IF body # <<>> /\ body[1] = 3
                     THEN /\ NewlyWritten(r) = <<ack, ExpectedSAck(t)>>
                          /\ r.sctp_local_tsn = (sctp_local_tsn + 1) % TsnMod
                     ELSE /\ NewlyWritten(r) = <<ExpectedSAck(t)>>
                          /\ r.sctp_local_tsn = sctp_local_tsn
        /\ \A c \in OtherChunks :
              LET r == AfterChunk(c, "Sent", NoWriteFails)
              IN  r.sctp_local_tsn = (sctp_local_tsn + CountData(NewlyWritten(r))) % TsnMod
        /\ \A w \in WriteResults :
              /\ \A b \in PpidBodies :
                    LET r == AfterChunk(DataChunk(1, 1, b[1], b[2]), "Sent", w)
                    IN  r.sctp_local_tsn =
                            (sctp_local_tsn + CountData(NewlyWritten(r))) % TsnMod
              /\ \A m \in Messages \cup BigMessages :
                    LET r == send_message([Self EXCEPT !.wleft = w], m[1], m[2])
                    IN  r.sctp_local_tsn =
                            (sctp_local_tsn + CountData(NewlyWritten(r))) % TsnMod
              /\ generate_periodic([Self EXCEPT !.wleft = w]).sctp_local_tsn = sctp_local_tsn
              /\ start_shutdown([Self EXCEPT !.wleft = w], "Sent").sctp_local_tsn
                    = sctp_local_tsn

(* C22: the DATA_CHANNEL_ACK written with the largest TSN on the stream of *)
(* the DATA_CHANNEL_OPEN, local_tsn wrapped to 0, the SACK after it.       *)
C22_Witness ==
    /\ sctp_local_tsn = 0 /\ Len(written) = 2
    /\ IsChunk(written[1], "Data") /\ written[1].body.chunks[1].tsn = TsnMod - 1
    /\ written[1].body.chunks[1].stream_id = 1
    /\ written[1].body.chunks[1].user_data = <<2>>
    /\ IsChunk(written[2], "SAck")

(* C23: with DTLS Established and the SCTP phase Shutdown, a DATA,         *)
(* HEARTBEAT, SACK, SHUTDOWN or FORWARD-TSN chunk writes nothing, enqueues *)
(* no message and changes nothing.  The code breaks it: the chunk is       *)
(* handled as in any other phase.                                          *)
C23_NoDispatchBeforeInit ==
    ssl_state = "Established" /\ sctp_state = "Shutdown" =>
        \A c \in AllChunks :
            c.type \in {"Data", "Heartbeat", "SAck", "Shutdown", "ForwardTsn"} =>
                AfterChunk(c, "Sent", NoWriteFails) = Call(Env("Sent", NoWriteFails))

(* C23: no INIT was ever handled (the ports are as constructed), and a     *)
(* DATA chunk has been SACKed and its message enqueued.                    *)
C23_DataBeforeInit ==
    /\ ssl_state = "Established" /\ sctp_state = "Shutdown"
    /\ sctp_local_port = 0 /\ sctp_remote_port = 0
    /\ received_messages = << <<"Text", TextBody>> >>
    /\ written # <<>> /\ IsChunk(written[Len(written)], "SAck")
    /\ written[Len(written)].body.verification_tag = 0

(* C24: when receive_incoming or start_shutdown returns an error, the DTLS *)
(* phase after the call is the phase before it.  The code breaks it: the   *)
(* phase Shutdown, put in place while the transition runs, stays when the  *)
(* transition returns early.                                               *)
C24_PhaseKeptOnError ==
    /\ \A d \in Datagrams : \A e \in RecvEnvs(d) :
          LET r == receive_incoming_packet(Call(e), d, e)
          IN  r.ret # "Ok" => r.ssl_state = ssl_state
    /\ \A e \in ShutdownEnvs :
          LET r == start_shutdown(Call(e), e.tls)
          IN  r.ret # "Ok" => r.ssl_state = ssl_state

(* C24: the owner called start_shutdown on an established association and *)
(* the write of the ABORT failed: the DTLS phase is Shutdown, the session  *)
(* and its queues are gone, the SCTP phase is still Established.           *)
C24_PlaceholderLeft ==
    /\ shut_in = "Established" /\ ssl_state = "Shutdown" /\ sctp_state = "Established"
    /\ incoming_udp = <<>> /\ outgoing_udp = <<>>
    /\ receive_incoming_packet(Call(QuietEnv), [kind |-> "noise"], QuietEnv).ret
          = "NotConnected"

(* what reads with a buffer of MaxLen bytes return, one after the other,   *)
(* until the queue is empty                                                *)
RECURSIVE ReadAll(_)
ReadAll(incoming) ==
    LET r == read(incoming, Zeroed(MaxLen))
    IN  IF r.ret # "Ok" THEN <<>>
        ELSE <<SubSeq(r.buf, 1, r.n)>> \o ReadAll(r.incoming_udp)

(* C25: a read with the head datagram D of the inbound queue no longer     *)
(* than the buffer returns |D|, leaves D's bytes at the start of the       *)
(* buffer and removes D alone; with a longer head it returns               *)
(* IncompletePacketRead; on an empty queue WouldBlock, the queue staying   *)
(* empty; successive reads return the queued datagrams one by one in queue *)
(* order; a write appends one datagram equal to the bytes written at the   *)
(* tail of the outbound queue and returns their number.                    *)
C25_ShimDatagrams ==
    /\ \A len \in 0..MaxLen :
          LET r == read(incoming_udp, Zeroed(len))
          IN  IF incoming_udp = <<>>
              THEN r.ret = "WouldBlock" /\ r.incoming_udp = <<>>
              ELSE IF Len(Head(incoming_udp)) <= len
              THEN /\ r.ret = "Ok" /\ r.n = Len(Head(incoming_udp))
                   /\ SubSeq(r.buf, 1, r.n) = Head(incoming_udp)
                   /\ r.incoming_udp = Tail(incoming_udp)
              ELSE r.ret = "IncompletePacketRead"
    /\ ReadAll(incoming_udp) = incoming_udp
    /\ \A d \in ShimDatagrams :
          LET w == write(outgoing_udp, d)
          IN  /\ w.ret = "Ok" /\ w.n = Len(d)
              /\ w.outgoing_udp = outgoing_udp \o <<d>>
    /\ shim_call.op = "read" /\ shim_call.ret = "Ok" =>
          SubSeq(shim_call.buf, 1, shim_call.n) \in ShimDatagrams
    /\ shim_call.op = "write" =>
          outgoing_udp = <<>> \/ shim_call.buf \in {outgoing_udp[i] : i \in 1..Len(outgoing_udp)}

(* C25: a one-byte datagram read into a two-byte buffer, the two-byte      *)
(* datagram behind it still queued.                                        *)
C25_Witness ==
    /\ shim_call = [op |-> "read", ret |-> "Ok", n |-> 1, buf |-> <<1, 0>>]
    /\ incoming_udp = << <<2, 2>> >>
    /\ outgoing_udp = << <<2, 2>>, <<1>> >>

(* what a call of receive_incoming_packet leaves queued when the TLS       *)
(* library reads n datagrams before the loop                               *)
QueuedAfter(d, n) ==
    SubSeq(Append(incoming_udp, d), Min(n, Len(incoming_udp) + 1) + 1, Len(incoming_udp) + 1)

(* C26, as stated: a receive_incoming call that has entered its loop       *)
(* leaves it; a call that returned Ok with the DTLS phase Established has  *)
(* left the inbound queue empty; datagrams are processed in call order and *)
(* never accumulate across calls: a call that returned Ok left none queued.*)
C26_NeverAccumulates ==
    /\ (drain.pc = "loop") ~> (drain.pc = "idle")
    /\ [](drain.pc = "idle" /\ drain.ret = "Ok" /\ ssl_state = "Established" =>
            incoming_udp = <<>>)
    /\ [](drain.pc = "idle" /\ drain.ret = "Ok" /\ ssl_state # "Shutdown" =>
            incoming_udp = <<>>)

(* C26, amended: a receive_incoming call that has entered its loop leaves  *)
(* it; each iteration ends the loop or takes the datagram at the head of   *)
(* the inbound queue; a call that returned Ok with the DTLS phase          *)
(* Established has left the inbound queue empty.  In the phases Handshake  *)
(* and ShuttingDown the queue is read by the TLS library alone, from the   *)
(* head: what it does not read stays queued in call order, and a call in   *)
(* which a failing handshake reads nothing returns Ok with its datagram    *)
(* added to the queue.                                                     *)
C26_DrainTerminates ==
    /\ (drain.pc = "loop") ~> (drain.pc = "idle")
    /\ [][drain.pc = "loop" =>
            \/ drain'.pc = "idle"
            \/ /\ incoming_udp # <<>>
               /\ incoming_udp' = Tail(incoming_udp)]_vars
    /\ [](drain.pc = "idle" /\ drain.ret = "Ok" /\ ssl_state = "Established" =>
            incoming_udp = <<>>)
    /\ [](drain.pc = "idle" /\ ssl_state \in {"Handshake", "ShuttingDown"} =>
            \A d \in DrainDatagrams : \A e \in RecvEnvs(d) :
                LET r == receive_incoming_packet(Call(e), d, e)
                IN  /\ r.ssl_state \in {"Handshake", "ShuttingDown"} =>
                          r.ret = "Ok" /\ r.incoming_udp = QueuedAfter(d, e.reads)
                    /\ e.tls = "Failure" /\ e.reads = 0 =>
                          /\ r.ret = "Ok" /\ r.ssl_state = "Handshake"
                          /\ r.incoming_udp = Append(incoming_udp, d))

(* C26: a call has fed the TLS session, gone round its loop *)
(* and returned Ok: a message is pending, the SACK written, the inbound    *)
(* queue empty.                                                            *)
C26_Witness ==
    /\ drain.pc = "idle" /\ drain.ret = "Ok"
    /\ ssl_state = "Established" /\ incoming_udp = <<>>
    /\ received_messages # <<>> /\ written # <<>>
    /\ IsChunk(written[Len(written)], "SAck")

(* C26: a call in the phase Handshake returned Ok and left datagrams       *)
(* queued.                                                                 *)
C26_Accumulated ==
    /\ drain.pc = "idle" /\ drain.ret = "Ok"
    /\ ssl_state = "Handshake" /\ Len(incoming_udp) = MaxIn

(* the loop run one iteration at a time comes to what                      *)
(* receive_incoming_packet returns                                         *)
DrainAsOneCall ==
    drain.pc = "idle" =>
        \A d \in DrainDatagrams : \A e \in RecvEnvs(d) :
            LET f == Feed(Call(e), d, e)
            IN  receive_incoming_packet(Call(e), d, e) =
                    IF f.ret = "Ok" THEN Drain(f, e) ELSE f

(* C27: with receive() polled again and again, a message sent through a   *)
(* Sender of get_sender() is in time taken by the loop and handed to the   *)
(* RTC server's send, and no sender stays blocked on the full channel.     *)
(* The code breaks it: the loop reads the other channel.                   *)
C27_MessagesForwarded ==
    /\ (\E i \in 1..Len(socket.to_server) : socket.to_server[i].type = "Message")
          ~> (socket.rtc_sent # <<>>)
    /\ (socket.parked # {}) ~> (socket.parked = {})

(* C27: one Sender handed out, the channel of get_sender() holding         *)
(* MESSAGE_BUFFER_SIZE + 1 events with a Message among them, the Sender    *)
(* blocked, receive() returned a Tick, nothing handed to the RTC server    *)
C27_SenderBlocked ==
    /\ socket.senders = 1 /\ socket.parked = {1}
    /\ Len(socket.to_server) = MESSAGE_BUFFER_SIZE + 1
    /\ socket.to_server[1].type = "Message"
    /\ socket.returned = "Tick"
    /\ socket.rtc_sent = <<>> /\ socket.to_client = <<>>
    /\ \A ev \in ClientEvents : ~ENABLED SenderSend(1, ev)

(* C27, what the code does: nothing is ever put in the channel the loop    *)
(* reads, and nothing is ever handed to the RTC server's send.             *)
C27_NothingForwarded ==
    socket.rtc_sent = <<>> /\ socket.to_client = <<>> /\ socket.pc = "select"

(* C28: no receive_incoming call reaches the panic of receive_sctp_packet, *)
(* in whatever state it is made and whatever the TLS library reports in    *)
(* it: not the call run one loop iteration at a time, not a call with a    *)
(* packet in which chunks follow an ABORT or a SHUTDOWN-ACK (those chunks  *)
(* are not handled), not a call with a close-notify.                       *)
C28_NoPanic ==
    /\ drain.ret # "Panic"
    /\ drain.pc = "loop" => DrainStep(DrainClient, drain.env).client.ret # "Panic"
    /\ drain.pc = "idle" =>
          \A d \in DrainDatagrams : \A e \in RecvEnvs(d) :
              receive_incoming_packet(Call(e), d, e).ret # "Panic"
    /\ drain.pc = "idle" /\ ssl_state = "Established" =>
          \A c1 \in {AbortChunk, ShutdownAckChunk},
             c2 \in {InitChunk(9, 0), HeartbeatChunk, AbortChunk,
                     DataChunk(1, 0, DATA_CHANNEL_PROTO_STRING, TextBody)},
             sd \in {"Sent", "Received", "Error"} :
              LET e == Env(sd, NoWriteFails)
                  r == receive_incoming_packet(Call(e), AppRecord(InPacket(<<c1, c2>>)), e)
              IN  /\ r.ret # "Panic"
                  /\ r = AfterChunk(c1, sd, NoWriteFails)

(* C28: the call with the packet of a SHUTDOWN-ACK and a HEARTBEAT has     *)
(* returned Ok: the close-notify written, no HEARTBEAT-ACK, the DTLS phase *)
(* ShuttingDown.                                                           *)
C28_Witness ==
    /\ drain.pc = "idle" /\ drain.ret = "Ok"
    /\ drain.d = AppRecord(InPacket(<<ShutdownAckChunk, HeartbeatChunk>>))
    /\ ssl_state = "ShuttingDown" /\ sctp_state = "Shutdown"
    /\ written = <<CloseNotifyRecord>>

====
